---- MODULE Spec2Model ----
(***************************************************************************)
(* tangled.web request handling: the system handler chain                  *)
(* (tangled/web/handlers.py), the mounted-resource matcher                 *)
(* (tangled/web/resource/mounted.py) and the request's finished callbacks  *)
(* (tangled/web/request.py).                                               *)
(*                                                                         *)
(* One request is followed through the chain                               *)
(*   exc_handler -> static_files -> tweaker -> notifier -> resource_finder *)
(*               -> [cors] -> main                                         *)
(* and then through exc_handler -> request_finished_handler.  Application  *)
(* code (resource methods, the error resource, representations, finished   *)
(* callbacks, the static directory application) is a nondeterministic      *)
(* choice among the outcomes the handlers distinguish.                     *)
(***************************************************************************)
EXTENDS Integers, Sequences, FiniteSets, TLC

VARIABLES
    app,                \* settings and registries of the application
    incoming,           \* the request as it arrived (never modified)
    request,            \* the request object the handlers mutate
    phase,              \* 1: handler chain, 2: finished-callbacks chain
    pc,                 \* the handler about to run
    exc,                \* the exception propagating to exc_handler
    ret,                \* the response travelling back up the chain
    original_response,  \* exc_handler's response for the exception
    err,                \* what get_exc_response did with the error resource
    match,              \* resource_finder's lookup
    trace,              \* the handlers entered, in order
    events,             \* notifications sent and resource method calls, in order
    called,             \* finished callbacks invoked, by registration index
    outcomes,           \* how each invoked callback ended
    exceptions,         \* _call_finished_callbacks' local list
    cb_response,        \* the response handed to the finished callbacks
    chain_result,       \* what exc_handler gave back for the handler chain
    finished_result,    \* what exc_handler gave back for the finished chain
    returned,           \* what the application's own handler returned to its wrapper
    rendering,          \* what main did with the resource method's result
    did,                \* what the application's code did for the request
    self,               \* a MountedResource, its path by the character
    call,               \* the call of self.match or self.format_path followed
    waiting,            \* a second request in the application: its state
    running,            \* which of the two requests the state above is of
    finished_callbacks  \* request._finished_callbacks, where what each callback
                        \* does is followed (FinishedSpec)

vars == <<app, incoming, request, phase, pc, exc, ret, original_response, err,
          match, trace, events, called, outcomes, exceptions, cb_response,
          chain_result, finished_result, returned, rendering, did, self, call,
          waiting, running, finished_callbacks>>

\* The state of the request and of its handling.
handling == <<app, incoming, request, phase, pc, exc, ret, original_response, err,
              match, trace, events, called, outcomes, exceptions, cb_response,
              chain_result, finished_result, returned, rendering, did>>

(***************************************************************************)
(* Bounds                                                                  *)
(***************************************************************************)
MaxMounts == 2
MaxCallbacks == 2
MaxPatternLen == 3
MaxPathLen == 4
MaxValueLen == 1

(***************************************************************************)
(* Values                                                                  *)
(***************************************************************************)
Methods == {"GET", "POST", "DELETE"}

STATUS_MAP == [m \in {"DELETE", "GET", "HEAD", "OPTIONS", "POST", "PUT"} |->
    CASE m = "DELETE" -> 204
      [] m = "GET" -> 200
      [] m = "HEAD" -> 204
      [] m = "OPTIONS" -> 200
      [] m = "POST" -> 303
      [] m = "PUT" -> 204]

\* A response object.  kind is its class, by is the code that created it.
Resp(kind, status, by) ==
    [kind |-> kind, status |-> status, by |-> by, rendered |-> FALSE, cors |-> FALSE]

NoResponse == Resp("None", 0, "")

\* What a handler can return besides a response: None, or an object of
\* another class.
NoneValue(by) == Resp("NoneType", 0, by)

OtherValue(by) == Resp("str", 0, by)

IsResponse(value) ==
    value.kind \in {"Response", "WSGIHTTPException", "HTTPInternalServerError",
                    "DebugHTTPInternalServerError"}

\* An exception object.  HTTP-level exceptions carry a status code.
Exc(type, status, by) == [type |-> type, status |-> status, by |-> by]

NoExc == Exc("None", 0, "")

IsHTTPException(e) == e.type = "WSGIHTTPException"

\* A WSGIHTTPException is itself a response (webob.exc).
AsResponse(e) == Resp("WSGIHTTPException", e.status, e.by)

\* The result of calling a handler: it returns a response or raises.
Returned(response) == [kind |-> "return", response |-> response, exc |-> NoExc]

Raised(e) == [kind |-> "raise", response |-> NoResponse, exc |-> e]

NoResult == [kind |-> "none", response |-> NoResponse, exc |-> NoExc]

NoMatch == [status |-> "unset", index |-> 0, method |-> "", path |-> <<>>, factory |-> FALSE]

NoErr == [factory_called |-> FALSE, get_called |-> FALSE, outcome |-> "none"]

(***************************************************************************)
(* Mounted resources: tangled/web/resource/mounted.py                      *)
(*                                                                         *)
(* A path is the sequence of its segments, "/a/b" being <<"a", "b">>.  A   *)
(* pattern segment is a literal or a {name} placeholder.                   *)
(***************************************************************************)
Placeholders == {"{id}"}

WordSegments == {"a", "b", "static"}

\* path_regex: a {name} placeholder is compiled to [\w-]+, a literal to
\* itself, and the regex is anchored at both ends.
PathRegexSearch(pattern, path) ==
    /\ Len(pattern) = Len(path)
    /\ \A i \in 1..Len(pattern) :
        IF pattern[i] \in Placeholders
        THEN path[i] \in WordSegments
        ELSE path[i] = pattern[i]

\* match.groupdict()
GroupDict(pattern, path) ==
    {<<pattern[i], path[i]>> : i \in {j \in 1..Len(pattern) : pattern[j] \in Placeholders}}

MountedMatchAnyMethodRejected(mounted, method, path) ==
    IF method \notin mounted.methods
    THEN FALSE
    ELSE PathRegexSearch(mounted.path, path)

MountedMatchNoMethodCheck(mounted, method, path) ==
    PathRegexSearch(mounted.path, path)

\* MountedResource.match: whether it returns a Match (rather than None).
MountedMatch(mounted, method, path) ==
    IF mounted.methods # {} /\ method \notin mounted.methods
    THEN FALSE
    ELSE PathRegexSearch(mounted.path, path)

Min(S) == CHOOSE x \in S : \A y \in S : x <= y

\* Application.find_mounted_resource: the index of the first mounted
\* resource, in mount order, that matches; 0 for None.
FindMountedResource(mounted_resources, method, path, ignore_method) ==
    LET hits == {i \in 1..Len(mounted_resources) :
                    IF ignore_method
                    THEN PathRegexSearch(mounted_resources[i].path, path)
                    ELSE MountedMatch(mounted_resources[i], method, path)}
    IN  IF hits = {} THEN 0 ELSE Min(hits)

\* Application._find_static_directory: the static mount the path is under.
FindStaticDirectory(static_directories, path_info) ==
    IF Len(path_info) > 0 /\ path_info[1] \in static_directories
    THEN path_info[1]
    ELSE "None"

(***************************************************************************)
(* MountedResource.path_regex, format_string, match and format_path, by    *)
(* the character.                                                          *)
(*                                                                         *)
(* A string is the sequence of its characters.  A path pattern is "/"      *)
(* followed by a sequence of tokens: a literal character, a placeholder    *)
(* {name} or a placeholder {name:regex}.  The names are single letters     *)
(* and the one regex is \d+.                                               *)
(***************************************************************************)
Lit(c) == [kind |-> "lit", text |-> c]

Identifier(name) == [kind |-> "identifier", text |-> name]

IdentifierWithRe(name) == [kind |-> "identifier_with_re", text |-> name]

\* The tokens a pattern is made of and the characters a path is made of.
PatternTokens == {Lit("/"), Lit("1"), Identifier("a"), IdentifierWithRe("b")}

PathChars == {"/", "a", "1", "{", "}"}

WordChars == {"a", "b", "1", "_", "-"}

DigitChars == {"1"}

\* The lookahead (?!.*\d+.*) of identifier and identifier_with_re, at the
\* "{" of token i: it fails when a digit stands anywhere after the "{".
\* Of the tokens only the literal 1 holds a digit.
DigitFollows(tokens, i) ==
    \E j \in (i + 1)..Len(tokens) : tokens[j] = Lit("1")

\* re.sub(identifier, ...): whether the {name} at token i is substituted.
IsSubstituted(tokens, i) ==
    tokens[i].kind = "identifier" /\ ~DigitFollows(tokens, i)

\* re.sub(identifier_with_re, ...): the tokens where the one match of
\* {(\w+):(.*)} starts and ends, <<0, 0>> when there is none.  The match
\* starts at the first {name:regex} whose lookahead holds and, (.*) being
\* greedy, ends at the last "}" of the string; braced is the set of the
\* kinds of token that still hold a "}" when the substitution is made.
WithReMatch(tokens, braced) ==
    LET starts == {i \in 1..Len(tokens) :
                      tokens[i].kind = "identifier_with_re" /\ ~DigitFollows(tokens, i)}
    IN  IF starts = {}
        THEN <<0, 0>>
        ELSE LET first == CHOOSE i \in starts : \A j \in starts : i <= j
                 ends == {j \in first..Len(tokens) : tokens[j].kind \in braced}
             IN  <<first, CHOOSE j \in ends : \A k \in ends : k <= j>>

\* An element of a compiled regex matches one character of the set chars
\* or, with plus, one or more of them.
Char(c) == [chars |-> {c}, plus |-> FALSE]

Class(chars) == [chars |-> chars, plus |-> TRUE]

RECURSIVE Concat(_)
Concat(seqs) ==
    IF seqs = <<>> THEN <<>> ELSE Head(seqs) \o Concat(Tail(seqs))

\* The elements token i contributes to the regex, m being the match of
\* identifier_with_re.  A {name} that was not substituted and a
\* {name:regex} outside the match are left in the regex as they are
\* written, where "{", "}" and ":" match themselves.
TokenElements(tokens, i, m) ==
    LET t == tokens[i]
    IN  IF t.kind = "lit"
        THEN <<Char(t.text)>>
        ELSE IF t.kind = "identifier"
        THEN IF IsSubstituted(tokens, i)
             THEN <<Class(WordChars)>>
             ELSE <<Char("{"), Char(t.text), Char("}")>>
        ELSE (IF i = m[1] THEN <<>> ELSE <<Char("{"), Char(t.text), Char(":")>>)
             \o <<Class(DigitChars)>>
             \o (IF i = m[2] THEN <<>> ELSE <<Char("}")>>)

\* The number of regex elements before those of token i; the pattern's
\* leading "/" is the first element.
RECURSIVE ElementsBefore(_, _, _)
ElementsBefore(tokens, i, m) ==
    IF i = 1
    THEN 1
    ELSE ElementsBefore(tokens, i - 1, m) + Len(TokenElements(tokens, i - 1, m))

\* path_regex: the compiled regex, as the elements between ^ and $ and the
\* named groups, each spanning the elements from..to.
PathRegex(tokens) ==
    LET m == WithReMatch(tokens, {"identifier_with_re"})
        from(i) == ElementsBefore(tokens, i, m) + 1
        to(i) == ElementsBefore(tokens, i, m) + Len(TokenElements(tokens, i, m))
    IN  [elements |->
            <<Char("/")>> \o Concat([i \in 1..Len(tokens) |-> TokenElements(tokens, i, m)]),
         groups |->
            {[name |-> tokens[i].text, from |-> from(i), to |-> to(i), token |-> i] :
                i \in {j \in 1..Len(tokens) : IsSubstituted(tokens, j)}}
            \cup (IF m[1] = 0
                  THEN {}
                  ELSE {[name |-> tokens[m[1]].text, from |-> from(m[1]), to |-> to(m[2]),
                         token |-> m[1]]})]

\* re.compile rejects a regex that defines a group name twice.
IsValidRegex(regex) ==
    \A g, h \in regex.groups : g.name = h.name => g = h

\* Whether the elements from k on match path from position pos to its end.
\* Without a newline in the path, $ matches at the end of the path only
\* and ^...$ makes search a match of the whole path.
RECURSIVE MatchesFrom(_, _, _, _)
MatchesFrom(elements, k, path, pos) ==
    IF k > Len(elements)
    THEN pos = Len(path) + 1
    ELSE IF pos > Len(path) \/ path[pos] \notin elements[k].chars
    THEN FALSE
    ELSE IF elements[k].plus
    THEN \E n \in 1..(Len(path) - pos + 1) :
            /\ \A q \in pos..(pos + n - 1) : path[q] \in elements[k].chars
            /\ MatchesFrom(elements, k + 1, path, pos + n)
    ELSE MatchesFrom(elements, k + 1, path, pos + 1)

\* path_regex.search(path): whether there is a match.
RegexSearch(regex, path) == MatchesFrom(regex.elements, 1, path, 1)

\* Where each element's match ends, for the match the regex engine finds:
\* every + takes as many characters as leave a match for the rest.
RECURSIVE MatchEnds(_, _, _, _)
MatchEnds(elements, k, path, pos) ==
    IF k > Len(elements)
    THEN <<>>
    ELSE LET lengths ==
                 IF elements[k].plus
                 THEN {n \in 1..(Len(path) - pos + 1) :
                         /\ \A q \in pos..(pos + n - 1) : path[q] \in elements[k].chars
                         /\ MatchesFrom(elements, k + 1, path, pos + n)}
                 ELSE {1}
             n == CHOOSE x \in lengths : \A y \in lengths : y <= x
         IN  <<pos + n - 1>> \o MatchEnds(elements, k + 1, path, pos + n)

\* match.groupdict(), for a path the regex matches: a function from the
\* group names to the text each group matched.
RegexGroupDict(regex, path) ==
    LET ends == MatchEnds(regex.elements, 1, path, 1)
        names == {g.name : g \in regex.groups}
        group(n) == CHOOSE g \in regex.groups : g.name = n
    IN  [n \in names |-> SubSeq(path, ends[group(n).from - 1] + 1, ends[group(n).to])]

\* A piece of a format string: text, a replacement field {name}, or a
\* replacement field {name:\d+} whose format specification str rejects.
Text(c) == [kind |-> "text", text |-> c]

Field(name) == [kind |-> "field", text |-> name]

FieldWithSpec(name) == [kind |-> "field_with_spec", text |-> name]

\* format_string: the substitution of identifier leaves every {name} as
\* it is, braces included, so that the match of identifier_with_re runs
\* to the last placeholder of the pattern.
FormatString(tokens) ==
    LET m == WithReMatch(tokens, {"identifier", "identifier_with_re"})
    IN  <<Text("/")>> \o
        Concat([i \in 1..Len(tokens) |->
            IF m[1] # 0 /\ m[1] <= i /\ i <= m[2]
            THEN IF i = m[1] THEN <<Field(tokens[i].text)>> ELSE <<>>
            ELSE IF tokens[i].kind = "lit" THEN <<Text(tokens[i].text)>>
            ELSE IF tokens[i].kind = "identifier" THEN <<Field(tokens[i].text)>>
            ELSE <<FieldWithSpec(tokens[i].text)>>])

\* What a call gives: a path, or an error.
Path(path) == [kind |-> "path", path |-> path, error |-> ""]

Error(type) == [kind |-> "error", path |-> <<>>, error |-> type]

\* str.format(**args): args is a function from names to strings.
StrFormat(format_string, args) ==
    LET failing == {i \in 1..Len(format_string) :
                       \/ /\ format_string[i].kind # "text"
                          /\ format_string[i].text \notin DOMAIN args
                       \/ format_string[i].kind = "field_with_spec"}
        first == CHOOSE i \in failing : \A j \in failing : i <= j
    IN  IF failing # {}
        THEN IF format_string[first].text \notin DOMAIN args
             THEN Error("KeyError")
             ELSE Error("ValueError")
        ELSE Path(Concat([i \in 1..Len(format_string) |->
                 IF format_string[i].kind = "text"
                 THEN <<format_string[i].text>>
                 ELSE args[format_string[i].text]]))

\* MountedResource.__init__ with the two reified properties read.
MountedResource(tokens) ==
    [path |-> tokens, path_regex |-> PathRegex(tokens),
     format_string |-> FormatString(tokens)]

\* MountedResource.match, lines 54-56, for a resource mounted for every
\* method: the urlvars of the Match, or None.
NoUrlvars == [kind |-> "None", urlvars |-> [n \in {} |-> <<>>]]

Urlvars(urlvars) == [kind |-> "Match", urlvars |-> urlvars]

MatchPath(mounted, path) ==
    IF RegexSearch(mounted.path_regex, path)
    THEN Urlvars(RegexGroupDict(mounted.path_regex, path))
    ELSE NoUrlvars

\* No call of match or format_path has been made.
NoCall == [op |-> "none", path |-> <<>>, match |-> NoUrlvars, args |-> NoUrlvars.urlvars,
           result |-> Error("")]

\* MountedResource.format_path
FormatPath(mounted, args) ==
    LET formatted == StrFormat(mounted.format_string, args)
    IN  IF formatted.kind = "path" /\ ~RegexSearch(mounted.path_regex, formatted.path)
        THEN Error("ValueError")
        ELSE formatted

(***************************************************************************)
(* Request parameters: request.GET and request.POST are sets of            *)
(* <<key, value>> pairs; request.params looks in GET first, then POST.     *)
(***************************************************************************)
NoParams == {}

Keys(d) == {p[1] : p \in d}

Get(d, k) == (CHOOSE p \in d : p[1] = k)[2]

Del(d, k) == {p \in d : p[1] # k}

Params(req, k) == IF k \in Keys(req.GET) THEN Get(req.GET, k) ELSE Get(req.POST, k)

\* tweaker, lines 179-185: the value of a special parameter, "" for None.
Special(req, k) ==
    IF k \in Keys(req.GET) \cup Keys(req.POST) THEN Params(req, k) ELSE ""

DelSpecialsFromGET(req) ==
    [req EXCEPT !.GET = Del(Del(@, "$method"), "$accept")]

\* tweaker, lines 186-190: the special parameters are deleted from
\* request.GET and from request.POST.
DelSpecials(req) ==
    [req EXCEPT !.GET = Del(Del(@, "$method"), "$accept"),
                !.POST = Del(Del(@, "$method"), "$accept")]

TweakMethodAlwaysTunnelled(request_method, method, tunneled_methods, debug) ==
    IF request_method = "POST"
    THEN method
    ELSE IF debug THEN method ELSE "abort"

TweakMethodAnyRequestMethod(request_method, method, tunneled_methods, debug) ==
    IF method \in tunneled_methods
    THEN method
    ELSE IF debug THEN method ELSE "abort"

\* tweaker, lines 204-210: the method the request gets, or "abort" for
\* request.abort(400).
TweakMethod(request_method, method, tunneled_methods, debug) ==
    IF request_method = "POST" /\ method \in tunneled_methods
    THEN method
    ELSE IF debug THEN method ELSE "abort"

(***************************************************************************)
(* tweaker, lines 212-220: the Accept value and the path's extension.      *)
(* A path is a sequence of segments; the characters of the segments that   *)
(* stand last in a request path are spelled out here.                      *)
(***************************************************************************)
Chars ==
    [segment \in {"", "a", "b", "static", "json", "xyz", "a.json", "a.xyz", ".json",
                  "a.", "a..json", ".", ".xyz"} |->
        CASE segment = "" -> <<>>
          [] segment = "a" -> <<"a">>
          [] segment = "b" -> <<"b">>
          [] segment = "static" -> <<"s", "t", "a", "t", "i", "c">>
          [] segment = "json" -> <<"j", "s", "o", "n">>
          [] segment = "xyz" -> <<"x", "y", "z">>
          [] segment = "a.json" -> <<"a", ".", "j", "s", "o", "n">>
          [] segment = "a.xyz" -> <<"a", ".", "x", "y", "z">>
          [] segment = ".json" -> <<".", "j", "s", "o", "n">>
          [] segment = "a." -> <<"a", ".">>
          [] segment = "a..json" -> <<"a", ".", ".", "j", "s", "o", "n">>
          [] segment = "." -> <<".">>
          [] segment = ".xyz" -> <<".", "x", "y", "z">>]

\* The string that has these characters.
Str(chars) == CHOOSE segment \in DOMAIN Chars : Chars[segment] = chars

Max(S) == CHOOSE x \in S : \A y \in S : x >= y

\* os.path.splitext on the characters after the last "/": the extension
\* starts at the last dot, unless only dots stand before it.
SplitExtChars(chars) ==
    LET dots == {i \in DOMAIN chars : chars[i] = "."}
    IN  IF dots = {}
        THEN <<chars, <<>>>>
        ELSE LET dotIndex == Max(dots)
             IN  IF \E i \in 1..(dotIndex - 1) : chars[i] # "."
                 THEN <<SubSeq(chars, 1, dotIndex - 1), SubSeq(chars, dotIndex, Len(chars))>>
                 ELSE <<chars, <<>>>>

\* os.path.splitext(request.path_info): <<root, ext>>, ext "" for none.
SplitExt(path_info) ==
    IF path_info = <<>>
    THEN <<path_info, "">>
    ELSE LET n == Len(path_info)
             split == SplitExtChars(Chars[path_info[n]])
         IN  <<[path_info EXCEPT ![n] = Str(split[1])], Str(split[2])>>

\* ext.lstrip('.')
LStrip(ext) ==
    LET chars == Chars[ext]
        kept == {i \in DOMAIN chars : chars[i] # "."}
    IN  IF kept = {} THEN "" ELSE Str(SubSeq(chars, Min(kept), Len(chars)))

\* app.get(Representation, key): the content type of the representation
\* type registered under key, "None" if there is none.
Representation(key) ==
    CASE key = "json" -> "application/json"
      [] key = "html" -> "text/html"
      [] OTHER -> "None"

SetAcceptExtFirst(req, accept, set_accept_from_ext) ==
    LET split == SplitExt(req.path_info)
    IN  IF set_accept_from_ext /\ split[2] # ""
        THEN [req EXCEPT !.accept = Representation(LStrip(split[2])),
                         !.path_info = split[1]]
        ELSE [req EXCEPT !.accept = IF accept # "" THEN accept ELSE @]

\* tweaker, lines 212-220: accept is specials['$accept'], "" for None.
SetAccept(req, accept, set_accept_from_ext) ==
    IF accept # ""
    THEN [req EXCEPT !.accept = accept]
    ELSE IF set_accept_from_ext
    THEN LET split == SplitExt(req.path_info)
             repr_type == Representation(LStrip(split[2]))
         IN  IF split[2] # "" /\ repr_type # "None"
             THEN [req EXCEPT !.accept = repr_type, !.path_info = split[1]]
             ELSE req
    ELSE req

(***************************************************************************)
(* Request.response (reify): the default response is created on first use  *)
(* from the representation info of request.resource.                       *)
(***************************************************************************)
DefaultResponse(req) == Resp("Response", STATUS_MAP[req.method], "request")

\* The request after request.response has been read once.
WithResponse(req) ==
    IF req.response = NoResponse
    THEN [req EXCEPT !.response = DefaultResponse(req)]
    ELSE req

(***************************************************************************)
(* main: what the resource method does is b, one of ResourceBehaviours.    *)
(***************************************************************************)
\* outcome: what the resource method returns or raises; status: the status
\* of the Response or HTTP exception it creates, or the status it sets on
\* request.response in its body (0: none); repr: what building the
\* representation gives; type: the representation type set via @config
\* ("": none).
Behaviour(outcome, status, repr, type) ==
    [outcome |-> outcome, status |-> status, repr |-> repr, type |-> type]

ResourceBehaviours ==
    { Behaviour("data", 0, "text", ""),       \* data, rendered as text
      Behaviour("data", 0, "text", "json"),   \* data, representation type pinned
      Behaviour("data", 301, "text", ""),     \* data, and a redirect status
      Behaviour("data", 0, "response", ""),   \* data, representation content is a Response
      Behaviour("data", 0, "error", ""),      \* data, building the representation raises
      Behaviour("None", 0, "text", ""),       \* no data
      Behaviour("None", 0, "text", "json"),   \* no data, representation type pinned
      Behaviour("None", 301, "text", ""),     \* no data, and a redirect status
      Behaviour("response", 200, "text", ""), \* a Response object
      Behaviour("http_exc", 303, "", ""),     \* raises a redirect
      Behaviour("http_exc", 404, "", ""),     \* raises an HTTP error
      Behaviour("exception", 0, "", "") }     \* raises another exception

\* The content types the application has registered representations for,
\* and its default_content_type setting.
ContentTypes == {"text/html", "application/json"}

DefaultContentType == "text/html"

\* Request.response_content_type: the best match of the Accept header
\* among the registered content types, or the default.
ResponseContentType(req) ==
    IF req.accept \in ContentTypes THEN req.accept ELSE DefaultContentType

\* What main did: the kind of value the resource method gave it, the type
\* set in the resource's configuration (info.type) and the differentiator
\* of the representation it built ("None": it built none).
Rendering(data, type, differentiator) ==
    [data |-> data, type |-> type, differentiator |-> differentiator]

NoRendering == Rendering("", "", "None")

IsResponseDataNever(outcome) == FALSE

\* main, line 326: isinstance(data, Response)
IsResponseData(outcome) == outcome = "response"

\* main, line 331
IsRedirectWithoutData(response, outcome) ==
    300 <= response.status /\ response.status < 400 /\ outcome = "None"

DifferentiatorNegotiated(type, content_type) == content_type

\* main, lines 337-340
Differentiator(type, content_type) ==
    IF type # "" THEN type ELSE content_type

\* The request once the resource method has run: a method that sets the
\* status of request.response reads request.response first.
AfterMethod(req, b) ==
    IF b.outcome \in {"data", "None"} /\ b.status # 0
    THEN [WithResponse(req) EXCEPT !.response.status = b.status]
    ELSE req

\* The result of main(app, request, _), the request it leaves behind and
\* what it did.
MainHandler(req, b, who) ==
    IF b.outcome = "exception"
    THEN [result |-> Raised(Exc("Exception", 0, who)), request |-> req,
          rendering |-> Rendering("raise", b.type, "None")]
    ELSE IF b.outcome = "http_exc"
    THEN [result |-> Raised(Exc("WSGIHTTPException", b.status, who)), request |-> req,
          rendering |-> Rendering("raise", b.type, "None")]
    ELSE IF IsResponseData(b.outcome)
    THEN [result |-> Returned(Resp("Response", b.status, who)), request |-> req,
          rendering |-> Rendering(b.outcome, b.type, "None")]
    ELSE LET req1 == WithResponse(AfterMethod(req, b))
             response == req1.response
             differentiator == Differentiator(b.type, ResponseContentType(req1))
         IN  IF IsRedirectWithoutData(response, b.outcome)
             THEN [result |-> Returned(response), request |-> req1,
                   rendering |-> Rendering(b.outcome, b.type, "None")]
             ELSE IF b.repr = "error"
             THEN [result |-> Raised(Exc("Exception", 0, "representation")),
                   request |-> req1,
                   rendering |-> Rendering(b.outcome, b.type, differentiator)]
             ELSE IF b.repr = "response"
             THEN [result |-> Returned(Resp("Response", 200, "representation")),
                   request |-> req1,
                   rendering |-> Rendering(b.outcome, b.type, differentiator)]
             ELSE LET rendered == [response EXCEPT !.rendered = TRUE]
                  IN  [result |-> Returned(rendered),
                       request |-> [req1 EXCEPT !.response = rendered],
                       rendering |-> Rendering(b.outcome, b.type, differentiator)]

\* The CORS handler adds its headers to the response of the next handler.
CorsHandler(response) == [response EXCEPT !.cors = TRUE]

(***************************************************************************)
(* exc_handler and get_exc_response                                        *)
(***************************************************************************)
\* exc_handler, lines 51-60: the response for a caught exception; who is
\* the exc_handler call that creates it.
ExcResponse(e, debug, who) ==
    IF IsHTTPException(e)
    THEN AsResponse(e)
    ELSE IF debug
    THEN Resp("DebugHTTPInternalServerError", 500, who)
    ELSE Resp("HTTPInternalServerError", 500, who)

ErrorResourceAppliesInDebug(settings, response) ==
    /\ response.status > 400
    /\ settings.error_resource

\* get_exc_response, lines 110-112: whether the error resource is used.
ErrorResourceApplies(settings, response) ==
    /\ response.status > 400
    /\ settings.error_resource
    /\ response.kind # "DebugHTTPInternalServerError"

RenderOutcomeEscapes(m, original) ==
    IF m.kind = "return"
    THEN Returned(m.response)
    ELSE IF IsHTTPException(m.exc)
    THEN Returned(AsResponse(m.exc))
    ELSE Raised(m.exc)

RenderOutcomeAlwaysOriginal(m, original) ==
    IF m.kind = "return"
    THEN Returned(m.response)
    ELSE Returned(original)

\* get_exc_response, lines 131-147: what comes of handler(app, request),
\* m being the handler's result: an HTTP-level exception is returned, any
\* other exception leaves the original response.
RenderOutcome(m, original) ==
    IF m.kind = "return"
    THEN Returned(m.response)
    ELSE IF IsHTTPException(m.exc)
    THEN Returned(AsResponse(m.exc))
    ELSE Returned(original)

\* What the error resource does: its factory may raise; its GET method
\* behaves like any resource method.
ErrorBehaviours ==
    { [factory |-> f, get |-> b] :
        f \in {"ok"},
        b \in { Behaviour("data", 0, "text", ""), Behaviour("response", 200, "", ""),
                Behaviour("http_exc", 403, "", ""), Behaviour("exception", 0, "", ""),
                Behaviour("data", 503, "text", ""),      \* data, and a status it sets
                Behaviour("data", 0, "response", ""),    \* representation content is a Response
                Behaviour("data", 0, "error", "") } }    \* building the representation raises
    \cup { [factory |-> "raise", get |-> Behaviour("exception", 0, "", "")] }

\* What the application's code did for a request, where the handlers left
\* it a choice: the status the static directory application answered
\* with, how resource.bind ended, what the application's handler did, what
\* the resource method did and what the error resource did.
NoDid ==
    [static |-> 0, bind |-> "", h |-> "", b |-> Behaviour("", 0, "", ""),
     e |-> [factory |-> "", get |-> Behaviour("", 0, "", "")]]

\* The handler built at lines 123-129: main, wrapped by the CORS handler
\* when CORS is enabled.
ErrorHandler(settings, req, b) ==
    LET m == MainHandler(req, b, "error_resource")
    IN  IF settings.cors_enabled /\ m.result.kind = "return"
        THEN [m EXCEPT !.result = Returned(CorsHandler(m.result.response))]
        ELSE m

\* get_exc_response(app, request, original_response) with the error
\* resource behaving as e: its result, the request it leaves, and a record
\* of its use of the error resource.
GetExcResponse(settings, req, original, e) ==
    IF ErrorResourceApplies(settings, original)
    THEN IF e.factory = "raise"
         THEN [result |-> Returned(original), request |-> req,
               err |-> [factory_called |-> TRUE, get_called |-> FALSE,
                        outcome |-> "factory_raised"]]
         ELSE LET req1 == [req EXCEPT !.method = "GET",
                                      !.resource = "error_resource",
                                      !.resource_method = "GET",
                                      !.response = original,
                                      !.resource_args = "None"]
                  m == ErrorHandler(settings, req1, e.get)
              IN  [result |-> RenderOutcome(m.result, original),
                   request |-> m.request,
                   err |-> [factory_called |-> TRUE, get_called |-> TRUE,
                            outcome |-> IF m.result.kind = "return" THEN "returned"
                                        ELSE IF IsHTTPException(m.result.exc)
                                        THEN "raised_http" ELSE "raised"]]
    ELSE IF settings.cors_enabled
    THEN [result |-> Returned(CorsHandler(original)), request |-> req, err |-> NoErr]
    ELSE [result |-> Returned(original), request |-> req, err |-> NoErr]

(***************************************************************************)
(* Finished callbacks: tangled/web/request.py                              *)
(***************************************************************************)
\* How a finished callback ends: normally, by raising an exception, or by
\* raising a WSGIHTTPException.
CallbackOutcomes == {"ok", "raise", "http"}

CollectExceptionFirstOnly(excs, i, outcome) ==
    IF outcome = "ok" \/ excs # <<>>
    THEN excs
    ELSE Append(excs, [callback |-> i,
                       type |-> IF outcome = "http" THEN "ValueError" ELSE "Exception"])

CollectExceptionAsRaised(excs, i, outcome) ==
    IF outcome = "ok"
    THEN excs
    ELSE Append(excs, [callback |-> i,
                       type |-> IF outcome = "http" THEN "WSGIHTTPException" ELSE "Exception"])

\* _call_finished_callbacks, lines 278-286: the exceptions list after
\* callback i ended with outcome.  A WSGIHTTPException is replaced by a
\* ValueError.
CollectException(excs, i, outcome) ==
    IF outcome = "ok"
    THEN excs
    ELSE Append(excs, [callback |-> i,
                       type |-> IF outcome = "http" THEN "ValueError" ELSE "Exception"])

CallbacksOutcomeNeverRaises(excs, response) == Returned(response)

\* _call_finished_callbacks, lines 287-288, then request_finished_handler,
\* line 162.
CallbacksOutcome(excs, response) ==
    IF excs # <<>>
    THEN Raised(Exc("RequestFinishedException", 0, "request"))
    ELSE Returned(response)

IsStaticAlwaysFalse(req) == FALSE

\* request_finished_handler, line 160: getattr(request, 'is_static', False)
IsStatic(req) == req.is_static

(***************************************************************************)
(* HandlerWrapper and the handlers the application adds to the chain       *)
(***************************************************************************)
\* What a handler of the application does: it returns what the next
\* handler returns, or it returns a value of its own without calling the
\* next handler.
HandlerBehaviours == {"next", "None", "value", "response"}

\* The value a handler of the application returns on its own.
HandlerValue(h) ==
    IF h = "None" THEN NoneValue("handler")
    ELSE IF h = "value" THEN OtherValue("handler")
    ELSE Resp("Response", 200, "handler")

\* HandlerWrapper.__call__, lines 365-369: result is what
\* self.callable_(app, request, self.next) came to.
HandlerWrapper(result) ==
    IF result.kind = "return" /\ result.response.kind = "NoneType"
    THEN Raised(Exc("ValueError", 0, "HandlerWrapper"))
    ELSE result

(***************************************************************************)
(* Configurations and requests                                             *)
(***************************************************************************)
Mounted(path, methods) ==
    [path |-> path, methods |-> methods, method |-> "None", add_slash |-> FALSE]

MountChoices ==
    { Mounted(<<"a">>, {"GET"}),
      Mounted(<<"{id}">>, {}),
      Mounted(<<"{id}">>, {"POST"}) }

RECURSIVE SeqsUpTo(_, _)
SeqsUpTo(S, n) ==
    IF n = 0
    THEN {<<>>}
    ELSE LET shorter == SeqsUpTo(S, n - 1)
         IN  shorter \cup {Append(q, x) : q \in shorter, x \in S}

MountTables == SeqsUpTo(MountChoices, MaxMounts)

Settings(debug, tunnel, error_resource, cors, mounted, on_finished) ==
    [debug |-> debug, tunnel_over_post |-> tunnel, error_resource |-> error_resource,
     cors_enabled |-> cors, static_directories |-> {"static"},
     mounted_resources |-> mounted, on_finished |-> on_finished, handlers |-> 0,
     set_accept_from_ext |-> FALSE]

Incoming(method, path, GET, POST) ==
    [method |-> method, path_info |-> path, GET |-> GET, POST |-> POST]

\* Where a $method parameter may stand in a request: in the query string
\* or, for a POST request, in the form.
MethodParams ==
    {<<NoParams, NoParams>>}
    \cup {<<{<<"$method", m>>}, NoParams>> : m \in {"DELETE", "GET", ""}}
    \cup {<<NoParams, {<<"$method", "DELETE">>}>>}
    \cup {<<{<<"q", "a">>}, {<<"$method", "DELETE">>, <<"$accept", "application/json">>,
                             <<"q", "b">>}>>}
    \cup {<<{<<"$accept", "application/json">>}, {<<"$accept", "text/html">>,
                                                  <<"$method", "PUT">>}>>}

\* Resolution: every table of mounted resources, every method and path.
ResolveScenarios ==
    { [app |-> Settings(FALSE, {}, FALSE, FALSE, t, 0),
       incoming |-> Incoming(m, p, NoParams, NoParams)] :
        t \in MountTables, m \in Methods, p \in {<<"a">>, <<"b">>, <<"a", "b">>} }

\* Tweaking: every setting the tweaker reads, every method and $method.
TweakScenarios ==
    LET all ==
        { [app |-> Settings(d, t, e, FALSE,
                            <<Mounted(<<"a">>, {"DELETE"}),
                              Mounted(<<"{id}">>, {"GET", "POST"})>>, 0),
           incoming |-> Incoming(m, <<"a">>, ps[1], ps[2])] :
            d \in BOOLEAN, t \in {{}, {"DELETE"}}, e \in BOOLEAN, m \in Methods,
            ps \in MethodParams }
    IN  {s \in all : s.incoming.POST = NoParams \/ s.incoming.method = "POST"}

\* Errors and finished callbacks: every setting exc_handler and
\* get_exc_response read, for a request that finds a resource, one that
\* finds none, one that is rejected by the tweaker and a static one.
ErrorScenarios ==
    { [app |-> Settings(d, {}, e, c, <<Mounted(<<"a">>, {})>>, MaxCallbacks),
       incoming |-> i] :
        d \in BOOLEAN, e \in BOOLEAN, c \in BOOLEAN,
        i \in { Incoming("GET", <<"a">>, NoParams, NoParams),
                Incoming("GET", <<"a", "b">>, NoParams, NoParams),
                Incoming("POST", <<"a">>, {<<"$method", "DELETE">>}, NoParams),
                Incoming("GET", <<"static", "a">>, NoParams, NoParams) } }

\* Rendering: every method, with and without an $accept override, with
\* and without a handler of the application in the chain, CORS and
\* finished callbacks.
RenderScenarios ==
    { [app |-> [Settings(FALSE, {}, e, c, <<Mounted(<<"a">>, {})>>, n)
                    EXCEPT !.handlers = h],
       incoming |-> Incoming(m, <<"a">>, ps, NoParams)] :
        e \in BOOLEAN, c \in BOOLEAN, n \in {0, 1}, h \in {0, 1}, m \in Methods,
        ps \in {NoParams, {<<"$accept", "application/json">>},
                           {<<"$accept", "image/png">>}} }

\* Trailing slashes: resources mounted with add_slash at /a and at /a/,
\* requested with and without the trailing slash.
AddSlashScenarios ==
    { [app |-> Settings(FALSE, {}, e, FALSE,
                        <<[Mounted(<<"a">>, {"GET"}) EXCEPT !.add_slash = TRUE],
                          [Mounted(<<"a", "">>, {"GET"}) EXCEPT !.add_slash = TRUE],
                          Mounted(<<"b">>, {})>>, 1),
       incoming |-> Incoming(m, p, NoParams, NoParams)] :
        e \in BOOLEAN, m \in {"GET", "POST"},
        p \in {<<"a">>, <<"a", "">>, <<"b">>, <<"b", "">>} }

\* Accept: paths with and without an extension, registered or not, with
\* and without an $accept parameter or a $method one, the
\* set_accept_from_ext setting on and off.
AcceptScenarios ==
    { [app |-> [Settings(FALSE, {"DELETE"}, FALSE, FALSE, <<Mounted(<<"a">>, {})>>, 0)
                    EXCEPT !.set_accept_from_ext = x],
       incoming |-> Incoming(m, p, ps, NoParams)] :
        x \in BOOLEAN, m \in {"GET", "POST"},
        p \in {<<"a">>, <<"a.json">>, <<"a.xyz">>, <<".json">>, <<"a.">>, <<"a..json">>,
               <<"a.json", "">>, <<"b", "a.json">>, <<>>},
        ps \in {NoParams, {<<"$accept", "image/png">>}, {<<"$accept", "">>},
                {<<"$accept", "text/html">>, <<"$method", "DELETE">>}} }

Scenarios ==
    ResolveScenarios \cup TweakScenarios \cup ErrorScenarios \cup RenderScenarios
        \cup AddSlashScenarios \cup AcceptScenarios

\* Application.make_request
MakeRequest(i) ==
    [method |-> i.method, path_info |-> i.path_info, GET |-> i.GET, POST |-> i.POST,
     accept |-> "", is_static |-> FALSE, urlvars |-> {}, resource |-> "None",
     resource_method |-> "None", resource_args |-> "None", response |-> NoResponse,
     finished_callbacks |-> 0]

\* A request of scenario s arrives.
RequestArrives(s) ==
    /\ app = s.app
    /\ incoming = s.incoming
    /\ request = MakeRequest(s.incoming)
    /\ phase = 1
    /\ pc = "exc_handler"
    /\ exc = NoExc
    /\ ret = NoResponse
    /\ original_response = NoResponse
    /\ err = NoErr
    /\ match = NoMatch
    /\ trace = <<>>
    /\ events = <<>>
    /\ called = <<>>
    /\ outcomes = <<>>
    /\ exceptions = <<>>
    /\ cb_response = NoResponse
    /\ chain_result = NoResult
    /\ finished_result = NoResult
    /\ returned = NoResponse
    /\ rendering = NoRendering
    /\ did = NoDid

\* There is no second request.
NoContext == [pc |-> "none"]

Init ==
    /\ \E s \in Scenarios : RequestArrives(s)
    /\ self = MountedResource(<<>>)
    /\ call = NoCall
    /\ waiting = NoContext
    /\ running = 1
    /\ finished_callbacks = <<>>

(***************************************************************************)
(* The handlers                                                            *)
(***************************************************************************)
RaiseThroughNotifier(e) ==
    /\ exc' = e
    /\ pc' = IF pc \in {"resource_finder", "handler", "main"} /\ phase = 1
             THEN "notifier_return"
             ELSE "exc_except"
    /\ ret' = AsResponse(e)

\* Where a handler's raise or return goes: every handler of the chain runs
\* inside exc_handler.
Raise(e) ==
    /\ exc' = e
    /\ pc' = "exc_except"
    /\ ret' = NoResponse

\* Request.on_finished: application code registers a finished callback.
OnFinished ==
    /\ pc = "exc_handler"
    /\ phase = 1
    /\ request.finished_callbacks < app.on_finished
    /\ request.finished_callbacks < MaxCallbacks
    /\ request' = [request EXCEPT !.finished_callbacks = @ + 1]
    /\ UNCHANGED <<app, incoming, finished_callbacks, did, self, call, waiting, running, returned, rendering, phase, pc, exc, ret, original_response, err, match,
                   trace, events, called, outcomes, exceptions, cb_response,
                   chain_result, finished_result>>

\* The exc_handler call in progress: the handler chain and the finished
\* chain each run inside their own.
Guard == IF phase = 1 THEN "exc_handler" ELSE "exc_handler/finished"

\* exc_handler, line 50: call the next handler.  The chain's next handler
\* is static_files; the finished chain's is request_finished_handler.
ExcHandler ==
    /\ pc = "exc_handler"
    /\ trace' = Append(trace, "exc_handler")
    /\ pc' = IF phase = 1 THEN "static_files" ELSE "request_finished_handler"
    /\ UNCHANGED <<app, incoming, finished_callbacks, did, self, call, waiting, running, returned, rendering, request, phase, exc, ret, original_response, err,
                   match, events, called, outcomes, exceptions, cb_response,
                   chain_result, finished_result>>

\* What exc_handler returns is the result of the chain it guards.
Finish(result) ==
    IF phase = 1
    THEN /\ chain_result' = result
         /\ pc' = "handled"
         /\ UNCHANGED finished_result
    ELSE /\ finished_result' = result
         /\ pc' = "done"
         /\ UNCHANGED chain_result

\* exc_handler, line 50: the next handler returned.
ExcHandlerReturn ==
    /\ pc = "exc_return"
    /\ Finish(Returned(ret))
    /\ UNCHANGED <<app, incoming, finished_callbacks, did, self, call, waiting, running, returned, rendering, request, phase, exc, ret, original_response, err,
                   match, trace, events, called, outcomes, exceptions, cb_response>>

\* exc_handler, lines 51-60: the next handler raised.
ExcHandlerExcept ==
    /\ pc = "exc_except"
    /\ original_response' = ExcResponse(exc, app.debug, Guard)
    /\ pc' = "get_exc_response"
    /\ UNCHANGED <<app, incoming, finished_callbacks, did, self, call, waiting, running, returned, rendering, request, phase, exc, ret, err, match, trace, events,
                   called, outcomes, exceptions, cb_response, chain_result,
                   finished_result>>

\* exc_handler, line 61: return get_exc_response(app, request, response).
\* The listing of the mounted resources for a 404 in debug mode (lines
\* 82-101) is written to stderr and changes nothing.
GetExcResponseCall ==
    /\ pc = "get_exc_response"
    /\ \E e \in ErrorBehaviours :
        LET g == GetExcResponse(app, request, original_response, e)
        IN  /\ request' = g.request
            /\ err' = g.err
            /\ did' = IF ErrorResourceApplies(app, original_response)
                      THEN [did EXCEPT !.e = e]
                      ELSE did
            /\ Finish(g.result)
    /\ trace' = Append(trace, "get_exc_response")
    /\ UNCHANGED <<app, incoming, finished_callbacks, self, call, waiting, running, returned, rendering, phase, exc, ret, original_response, match, events,
                   called, outcomes, exceptions, cb_response>>

\* static_files: the static directory application answers with a response.
StaticFiles ==
    /\ pc = "static_files"
    /\ trace' = Append(trace, "static_files")
    /\ LET prefix == FindStaticDirectory(app.static_directories, request.path_info)
       IN  IF prefix # "None"
           THEN /\ request' = [request EXCEPT !.is_static = TRUE]
                /\ \E status \in {200, 404} :
                    /\ ret' = Resp("Response", status, "static_directory")
                    /\ did' = [did EXCEPT !.static = status]
                /\ pc' = "exc_return"
           ELSE /\ pc' = "tweaker"
                /\ UNCHANGED <<request, ret, did>>
    /\ UNCHANGED <<app, incoming, finished_callbacks, self, call, waiting, running, returned, rendering, phase, exc, original_response, err, match, events,
                   called, outcomes, exceptions, cb_response, chain_result,
                   finished_result>>

\* tweaker: the special parameters are taken out of GET and POST, $method
\* overrides the request method and $accept the Accept header.  The copy
\* of the CSRF token into the headers (lines 196-202) changes
\* request.headers alone, which the state does not hold.
Tweaker ==
    /\ pc = "tweaker"
    /\ trace' = Append(trace, "tweaker")
    /\ LET method == Special(request, "$method")
           accept == Special(request, "$accept")
           req1 == DelSpecials(request)
           tweaked == IF method # ""
                      THEN TweakMethod(request.method, method, app.tunnel_over_post, app.debug)
                      ELSE request.method
       IN  IF tweaked = "abort"
           THEN /\ request' = req1
                /\ Raise(Exc("WSGIHTTPException", 400, "tweaker"))
           ELSE /\ request' = SetAccept([req1 EXCEPT !.method = tweaked], accept,
                                         app.set_accept_from_ext)
                /\ pc' = "notifier"
                /\ UNCHANGED <<exc, ret>>
    /\ UNCHANGED <<app, incoming, finished_callbacks, did, self, call, waiting, running, returned, rendering, phase, original_response, err, match, events, called,
                   outcomes, exceptions, cb_response, chain_result, finished_result>>

NotifierNotifiesBoth ==
    /\ pc = "notifier"
    /\ trace' = Append(trace, "notifier")
    /\ events' = events \o <<"NewRequest", "NewResponse">>
    /\ pc' = "resource_finder"
    /\ UNCHANGED <<app, incoming, finished_callbacks, did, self, call, waiting, running, returned, rendering, request, phase, exc, ret, original_response, err,
                   match, called, outcomes, exceptions, cb_response, chain_result,
                   finished_result>>

\* notifier, lines 226-227
Notifier ==
    /\ pc = "notifier"
    /\ trace' = Append(trace, "notifier")
    /\ events' = Append(events, "NewRequest")
    /\ pc' = "resource_finder"
    /\ UNCHANGED <<app, incoming, finished_callbacks, did, self, call, waiting, running, returned, rendering, request, phase, exc, ret, original_response, err,
                   match, called, outcomes, exceptions, cb_response, chain_result,
                   finished_result>>

\* notifier, lines 228-229: the next handler returned.
NotifierReturn ==
    /\ pc = "notifier_return"
    /\ events' = Append(events, "NewResponse")
    /\ pc' = "exc_return"
    /\ UNCHANGED <<app, incoming, finished_callbacks, did, self, call, waiting, running, returned, rendering, request, phase, exc, ret, original_response, err,
                   match, trace, called, outcomes, exceptions, cb_response,
                   chain_result, finished_result>>

\* request.path_info.endswith('/'): "/a/" is <<"a", "">> and "/" is <<>>.
EndsWithSlash(path_info) ==
    path_info = <<>> \/ path_info[Len(path_info)] = ""

AddSlashAlways(add_slash, path_info) == add_slash

\* resource_finder, line 256
AddSlash(add_slash, path_info) == add_slash /\ ~EndsWithSlash(path_info)

ResourceFinderKeepsMethod ==
    /\ pc = "resource_finder"
    /\ trace' = Append(trace, "resource_finder")
    /\ LET found == FindMountedResource(app.mounted_resources, request.method,
                                        request.path_info, FALSE)
           at_path == FindMountedResource(app.mounted_resources, request.method,
                                          request.path_info, TRUE)
           seen == [NoMatch EXCEPT !.method = request.method, !.path = request.path_info]
       IN  IF found = 0
           THEN /\ match' = [seen EXCEPT !.status = IF at_path = 0 THEN "404" ELSE "405"]
                /\ Raise(Exc("WSGIHTTPException", IF at_path = 0 THEN 404 ELSE 405,
                             "resource_finder"))
                /\ UNCHANGED <<app, request, events, did>>
           ELSE LET mounted_resource == app.mounted_resources[found]
                    urlvars == GroupDict(mounted_resource.path, request.path_info)
                    method == IF mounted_resource.method # "None"
                              THEN mounted_resource.method
                              ELSE request.method
                IN  IF AddSlash(mounted_resource.add_slash, request.path_info)
                    THEN /\ match' = [seen EXCEPT !.status = "303", !.index = found]
                         /\ request' = [request EXCEPT !.urlvars = urlvars,
                                                       !.path_info = Append(@, "")]
                         /\ Raise(Exc("WSGIHTTPException", 303, "resource_finder"))
                         /\ UNCHANGED <<app, events, did>>
                    ELSE \E bind \in {"ok", "BindError"} :
                            /\ did' = [did EXCEPT !.bind = bind]
                            /\ IF bind = "BindError"
                               THEN /\ match' = [seen EXCEPT !.status = "400", !.index = found,
                                                             !.factory = TRUE]
                                    /\ request' = [request EXCEPT !.urlvars = urlvars]
                                    /\ Raise(Exc("WSGIHTTPException", 400, "resource_finder"))
                                    /\ UNCHANGED <<app, events>>
                               ELSE /\ match' = [seen EXCEPT !.status = "ok", !.index = found,
                                                             !.factory = TRUE]
                                    /\ request' = [request EXCEPT !.urlvars = urlvars,
                                                                  !.resource = "resource",
                                                                  !.resource_method = method,
                                                                  !.resource_args = "args"]
                                    /\ app' = [app EXCEPT !.mounted_resources[found].method = method]
                                    /\ events' = Append(events, "ResourceFound")
                                    /\ pc' = IF app.handlers > 0 THEN "handler" ELSE "main"
                                    /\ UNCHANGED <<exc, ret>>
    /\ UNCHANGED <<incoming, finished_callbacks, self, call, waiting, running, returned, rendering,
                   phase, original_response, err, called, outcomes, exceptions,
                   cb_response, chain_result, finished_result>>

\* resource_finder: bind is what resource.bind does, "ok" or "BindError";
\* match.factory tells whether the resource factory was called.
ResourceFinder ==
    /\ pc = "resource_finder"
    /\ trace' = Append(trace, "resource_finder")
    /\ LET found == FindMountedResource(app.mounted_resources, request.method,
                                        request.path_info, FALSE)
           at_path == FindMountedResource(app.mounted_resources, request.method,
                                          request.path_info, TRUE)
           seen == [NoMatch EXCEPT !.method = request.method, !.path = request.path_info]
       IN  IF found = 0
           THEN /\ match' = [seen EXCEPT !.status = IF at_path = 0 THEN "404" ELSE "405"]
                /\ Raise(Exc("WSGIHTTPException", IF at_path = 0 THEN 404 ELSE 405,
                             "resource_finder"))
                /\ UNCHANGED <<request, events, did>>
           ELSE LET mounted_resource == app.mounted_resources[found]
                    urlvars == GroupDict(mounted_resource.path, request.path_info)
                    method == IF mounted_resource.method # "None"
                              THEN mounted_resource.method
                              ELSE request.method
                IN  IF AddSlash(mounted_resource.add_slash, request.path_info)
                    THEN /\ match' = [seen EXCEPT !.status = "303", !.index = found]
                         /\ request' = [request EXCEPT !.urlvars = urlvars,
                                                       !.path_info = Append(@, "")]
                         /\ Raise(Exc("WSGIHTTPException", 303, "resource_finder"))
                         /\ UNCHANGED <<events, did>>
                    ELSE \E bind \in {"ok", "BindError"} :
                            /\ did' = [did EXCEPT !.bind = bind]
                            /\ IF bind = "BindError"
                               THEN /\ match' = [seen EXCEPT !.status = "400", !.index = found,
                                                             !.factory = TRUE]
                                    /\ request' = [request EXCEPT !.urlvars = urlvars]
                                    /\ Raise(Exc("WSGIHTTPException", 400, "resource_finder"))
                                    /\ UNCHANGED events
                               ELSE /\ match' = [seen EXCEPT !.status = "ok", !.index = found,
                                                             !.factory = TRUE]
                                    /\ request' = [request EXCEPT !.urlvars = urlvars,
                                                                  !.resource = "resource",
                                                                  !.resource_method = method,
                                                                  !.resource_args = "args"]
                                    /\ events' = Append(events, "ResourceFound")
                                    /\ pc' = IF app.handlers > 0 THEN "handler" ELSE "main"
                                    /\ UNCHANGED <<exc, ret>>
    /\ UNCHANGED <<app, incoming, finished_callbacks, self, call, waiting, running, returned, rendering,
                   phase, original_response, err, called, outcomes, exceptions,
                   cb_response, chain_result, finished_result>>

\* A handler the application has added to the chain, called through its
\* HandlerWrapper.  What it returns on its own goes back up through
\* resource_finder to notifier.
Handler ==
    /\ pc = "handler"
    /\ trace' = Append(trace, "handler")
    /\ \E h \in HandlerBehaviours :
        IF h = "next"
        THEN /\ pc' = "main"
             /\ did' = [did EXCEPT !.h = h]
             /\ UNCHANGED <<exc, ret, returned>>
        ELSE LET w == HandlerWrapper(Returned(HandlerValue(h)))
             IN  /\ returned' = HandlerValue(h)
                 /\ did' = [did EXCEPT !.h = h]
                 /\ IF w.kind = "raise"
                    THEN Raise(w.exc)
                    ELSE /\ ret' = w.response
                         /\ pc' = "notifier_return"
                         /\ UNCHANGED exc
    /\ UNCHANGED <<app, incoming, finished_callbacks, self, call, waiting, running, request, rendering, phase, original_response, err,
                   match, events, called, outcomes, exceptions, cb_response,
                   chain_result, finished_result>>

\* main, as the last handler of the chain; its response goes back through
\* the CORS handler when CORS is enabled.
Main ==
    /\ pc = "main"
    /\ trace' = Append(trace, "main")
    /\ events' = Append(events, "resource_method")
    /\ \E b \in ResourceBehaviours :
        LET m == MainHandler(request, b, "resource")
            w == HandlerWrapper(m.result)
        IN  /\ request' = m.request
            /\ rendering' = m.rendering
            /\ did' = [did EXCEPT !.b = b]
            /\ IF w.kind = "raise"
               THEN Raise(w.exc)
               ELSE /\ ret' = w.response
                    /\ pc' = IF app.cors_enabled THEN "cors_return" ELSE "notifier_return"
                    /\ UNCHANGED exc
    /\ UNCHANGED <<app, incoming, finished_callbacks, self, call, waiting, running, returned, phase, original_response, err, match,
                   called, outcomes, exceptions, cb_response, chain_result,
                   finished_result>>

\* The CORS handler of the chain: the next handler returned.
CorsReturn ==
    /\ pc = "cors_return"
    /\ ret' = CorsHandler(ret)
    /\ pc' = "notifier_return"
    /\ UNCHANGED <<app, incoming, finished_callbacks, did, self, call, waiting, running, returned, rendering, request, phase, exc, original_response, err, match,
                   trace, events, called, outcomes, exceptions, cb_response,
                   chain_result, finished_result>>

\* The application sends the request through the finished chain once the
\* handler chain has answered.
CallRequestFinishedHandler ==
    /\ pc = "handled"
    /\ phase' = 2
    /\ pc' = "exc_handler"
    /\ exc' = NoExc
    /\ ret' = NoResponse
    /\ original_response' = NoResponse
    /\ err' = NoErr
    /\ UNCHANGED <<app, incoming, finished_callbacks, did, self, call, waiting, running, returned, rendering, request, match, trace, events, called, outcomes,
                   exceptions, cb_response, chain_result, finished_result>>

\* request_finished_handler, lines 160-162, up to the first callback.
\* Reading request.response creates the default response; without a
\* resource on the request its creation may fail.
RequestFinishedHandler ==
    /\ pc = "request_finished_handler"
    /\ trace' = Append(trace, "request_finished_handler")
    /\ \E created \in BOOLEAN :
        /\ created \/ (request.response = NoResponse /\ request.resource = "None")
        /\ IF ~created
           THEN /\ Raise(Exc("AttributeError", 0, "request"))
                /\ UNCHANGED <<request, cb_response>>
           ELSE /\ request' = WithResponse(request)
                /\ IF IsStatic(request)
                   THEN /\ ret' = request'.response
                        /\ pc' = "exc_return"
                        /\ UNCHANGED <<exc, cb_response>>
                   ELSE /\ cb_response' = request'.response
                        /\ pc' = "callbacks"
                        /\ UNCHANGED <<exc, ret>>
    /\ UNCHANGED <<app, incoming, finished_callbacks, did, self, call, waiting, running, returned, rendering, phase, original_response, err, match, events, called,
                   outcomes, exceptions, chain_result, finished_result>>

\* _call_finished_callbacks, lines 277-286: one turn of the loop.
CallFinishedCallback ==
    /\ pc = "callbacks"
    /\ Len(called) < request.finished_callbacks
    /\ LET i == Len(called) + 1
       IN  \E outcome \in CallbackOutcomes :
            /\ called' = Append(called, i)
            /\ outcomes' = Append(outcomes, outcome)
            /\ exceptions' = CollectException(exceptions, i, outcome)
    /\ UNCHANGED <<app, incoming, finished_callbacks, did, self, call, waiting, running, returned, rendering, request, phase, pc, exc, ret, original_response, err,
                   match, trace, events, cb_response, chain_result, finished_result>>

\* _call_finished_callbacks, lines 287-288, and request_finished_handler,
\* line 162: the loop is over.
CallbacksDone ==
    /\ pc = "callbacks"
    /\ Len(called) >= request.finished_callbacks
    /\ LET o == CallbacksOutcome(exceptions, request.response)
       IN  IF o.kind = "raise"
           THEN Raise(o.exc)
           ELSE /\ ret' = o.response
                /\ pc' = "exc_return"
                /\ UNCHANGED exc
    /\ UNCHANGED <<app, incoming, finished_callbacks, did, self, call, waiting, running, returned, rendering, request, phase, original_response, err, match, trace,
                   events, called, outcomes, exceptions, cb_response, chain_result,
                   finished_result>>

Next ==
    \/ OnFinished
    \/ ExcHandler
    \/ ExcHandlerReturn
    \/ ExcHandlerExcept
    \/ GetExcResponseCall
    \/ StaticFiles
    \/ Tweaker
    \/ Notifier
    \/ NotifierReturn
    \/ ResourceFinder
    \/ Handler
    \/ Main
    \/ CorsReturn
    \/ CallRequestFinishedHandler
    \/ RequestFinishedHandler
    \/ CallFinishedCallback
    \/ CallbacksDone

Spec == Init /\ [][Next]_vars

(***************************************************************************)
(* Two requests in one application.  Each request is handled by a unit of  *)
(* execution of its own; the variables of the handlers hold the state of   *)
(* the request whose unit is running and waiting holds the state of the    *)
(* other.  The application, app, is the one thing the two share.           *)
(***************************************************************************)
\* The state of a request and of its handling, as a record.
Context ==
    [incoming |-> incoming, request |-> request, phase |-> phase, pc |-> pc,
     exc |-> exc, ret |-> ret, original_response |-> original_response, err |-> err,
     match |-> match, trace |-> trace, events |-> events, called |-> called,
     outcomes |-> outcomes, exceptions |-> exceptions, cb_response |-> cb_response,
     chain_result |-> chain_result, finished_result |-> finished_result,
     returned |-> returned, rendering |-> rendering, did |-> did]

\* The handler chain, from exc_handler down, for one request handled on
\* its own: what exc_handler returns and the request it leaves, for the
\* application a and the incoming request i, the application's code doing
\* d.
HandleAlone(a, i, d) ==
    LET req0 == MakeRequest(i)
        method == Special(req0, "$method")
        accept == Special(req0, "$accept")
        tweaked == IF method # ""
                   THEN TweakMethod(req0.method, method, a.tunnel_over_post, a.debug)
                   ELSE req0.method
        req1 == DelSpecials(req0)
        req2 == SetAccept([req1 EXCEPT !.method = tweaked], accept, a.set_accept_from_ext)
        found == FindMountedResource(a.mounted_resources, req2.method, req2.path_info, FALSE)
        at_path == FindMountedResource(a.mounted_resources, req2.method, req2.path_info, TRUE)
        mounted_resource == a.mounted_resources[found]
        req3 == [req2 EXCEPT !.urlvars = GroupDict(mounted_resource.path, req2.path_info)]
        req4 == [req3 EXCEPT !.resource = "resource",
                             !.resource_method = IF mounted_resource.method # "None"
                                                 THEN mounted_resource.method
                                                 ELSE req2.method,
                             !.resource_args = "args"]
        m == MainHandler(req4, d.b, "resource")
        Aborted(status, by, req) ==
            [result |-> Raised(Exc("WSGIHTTPException", status, by)), request |-> req]
        chain ==
            IF FindStaticDirectory(a.static_directories, req0.path_info) # "None"
            THEN [result |-> Returned(Resp("Response", d.static, "static_directory")),
                  request |-> [req0 EXCEPT !.is_static = TRUE]]
            ELSE IF tweaked = "abort" THEN Aborted(400, "tweaker", req1)
            ELSE IF found = 0
            THEN Aborted(IF at_path = 0 THEN 404 ELSE 405, "resource_finder", req2)
            ELSE IF AddSlash(mounted_resource.add_slash, req2.path_info)
            THEN Aborted(303, "resource_finder", [req3 EXCEPT !.path_info = Append(@, "")])
            ELSE IF d.bind = "BindError" THEN Aborted(400, "resource_finder", req3)
            ELSE IF a.handlers > 0 /\ d.h # "next"
            THEN [result |-> HandlerWrapper(Returned(HandlerValue(d.h))), request |-> req4]
            ELSE IF m.result.kind = "return" /\ a.cors_enabled
            THEN [result |-> Returned(CorsHandler(m.result.response)), request |-> m.request]
            ELSE [result |-> HandlerWrapper(m.result), request |-> m.request]
    IN  IF chain.result.kind = "return"
        THEN chain
        ELSE LET g == GetExcResponse(a, chain.request,
                                     ExcResponse(chain.result.exc, a.debug, "exc_handler"),
                                     d.e)
             IN  [result |-> g.result, request |-> g.request]

\* Two requests for one application: what the handlers read of the
\* application, and a request for a resource, one the tweaker changes,
\* one it rejects, one without a resource and a static one.
ConcurrentScenarios ==
    { [app |-> [Settings(d, {"DELETE"}, e, c,
                         <<Mounted(<<"a">>, {"GET", "DELETE"}), Mounted(<<"{id}">>, {"GET"})>>, 0)
                    EXCEPT !.handlers = h],
       first |-> i, second |-> j] :
        d \in {FALSE}, e \in BOOLEAN, c \in BOOLEAN, h \in {0, 1},
        i \in { Incoming("GET", <<"a">>, NoParams, NoParams),
                Incoming("POST", <<"a">>, {<<"$method", "DELETE">>}, NoParams) },
        j \in { Incoming("GET", <<"a">>, NoParams, NoParams),
                Incoming("GET", <<"b">>, {<<"$method", "PUT">>}, NoParams),
                Incoming("POST", <<"b">>, NoParams, NoParams),
                Incoming("GET", <<"static", "a">>, NoParams, NoParams) } }

ConcurrentInit ==
    \E s \in ConcurrentScenarios :
        /\ RequestArrives([app |-> s.app, incoming |-> s.first])
        /\ waiting = [Context EXCEPT !.incoming = s.second,
                                     !.request = MakeRequest(s.second)]
        /\ running = 1
        /\ self = MountedResource(<<>>)
        /\ call = NoCall
        /\ finished_callbacks = <<>>

\* The unit of execution of the other request gets to run.
Switch ==
    /\ incoming' = waiting.incoming
    /\ request' = waiting.request
    /\ phase' = waiting.phase
    /\ pc' = waiting.pc
    /\ exc' = waiting.exc
    /\ ret' = waiting.ret
    /\ original_response' = waiting.original_response
    /\ err' = waiting.err
    /\ match' = waiting.match
    /\ trace' = waiting.trace
    /\ events' = waiting.events
    /\ called' = waiting.called
    /\ outcomes' = waiting.outcomes
    /\ exceptions' = waiting.exceptions
    /\ cb_response' = waiting.cb_response
    /\ chain_result' = waiting.chain_result
    /\ finished_result' = waiting.finished_result
    /\ returned' = waiting.returned
    /\ rendering' = waiting.rendering
    /\ did' = waiting.did
    /\ waiting' = Context
    /\ running' = 3 - running
    /\ UNCHANGED <<app, self, call, finished_callbacks>>

\* The handler chain of either request takes a step, or the other unit
\* of execution is scheduled.
ConcurrentNext ==
    \/ ExcHandler
    \/ ExcHandlerReturn
    \/ ExcHandlerExcept
    \/ GetExcResponseCall
    \/ StaticFiles
    \/ Tweaker
    \/ Notifier
    \/ NotifierReturn
    \/ ResourceFinder
    \/ Handler
    \/ Main
    \/ CorsReturn
    \/ Switch

ConcurrentSpec == ConcurrentInit /\ [][ConcurrentNext]_vars

(***************************************************************************)
(* Calls of MountedResource.match and MountedResource.format_path on one   *)
(* mounted resource, for every pattern and path within the bounds          *)
(***************************************************************************)
\* The patterns re.compile accepts: __init__ reads path_regex to make sure.
Patterns ==
    {tokens \in SeqsUpTo(PatternTokens, MaxPatternLen) : IsValidRegex(PathRegex(tokens))}

Paths == {<<"/">> \o chars : chars \in SeqsUpTo(PathChars, MaxPathLen)}

\* The keyword arguments of a call of format_path.
Args ==
    UNION {[names -> SeqsUpTo(PathChars, MaxValueLen)] : names \in SUBSET {"a", "b"}}

MountedInit ==
    /\ RequestArrives(CHOOSE s \in ErrorScenarios : TRUE)
    /\ self \in {MountedResource(tokens) : tokens \in Patterns}
    /\ call = NoCall
    /\ waiting = NoContext
    /\ running = 1
    /\ finished_callbacks = <<>>

\* self.match(method, path)
Match ==
    /\ call.op = "none"
    /\ \E path \in Paths :
        call' = [call EXCEPT !.op = "match", !.path = path, !.match = MatchPath(self, path)]
    /\ UNCHANGED <<self, handling, waiting, running, finished_callbacks>>

\* self.format_path(**match.urlvars), for the Match that self.match gave
FormatPathOfMatch ==
    /\ call.op = "match"
    /\ call.match.kind = "Match"
    /\ call' = [call EXCEPT !.op = "format_path", !.args = call.match.urlvars,
                            !.result = FormatPath(self, call.match.urlvars)]
    /\ UNCHANGED <<self, handling, waiting, running, finished_callbacks>>

\* self.format_path(**args), for any args
FormatPathOfArgs ==
    /\ call.op = "none"
    /\ \E args \in Args :
        call' = [call EXCEPT !.op = "format_path", !.args = args,
                            !.result = FormatPath(self, args)]
    /\ UNCHANGED <<self, handling, waiting, running, finished_callbacks>>

MountedNext ==
    \/ Match
    \/ FormatPathOfMatch
    \/ FormatPathOfArgs

MountedSpec == MountedInit /\ [][MountedNext]_vars

(***************************************************************************)
(* Finished callbacks that register finished callbacks.  The callbacks of  *)
(* request._finished_callbacks are followed one by one: what each does     *)
(* when it is called, and which call registered it.                        *)
(***************************************************************************)
\* What a finished callback does when it is called: it returns, it raises,
\* it registers another callback (one that returns) with
\* request.on_finished and returns, or it registers itself again and
\* returns.
Does == {"ok", "raise", "register", "reregister"}

\* A registered callback: by is the index of the callback whose call
\* registered it, 0 for the application's code before the pass.
Callback(does, by) == [does |-> does, by |-> by]

\* The list is followed up to this length.
MaxRegistered == 2 * MaxCallbacks

RegisteredElsewhere(callbacks, i) == callbacks

\* on_finished, line 264, called by callback i of the list during the
\* pass: self._finished_callbacks.append(...), on the list that the loop
\* of _call_finished_callbacks is iterating over.
Registered(callbacks, i) ==
    CASE callbacks[i].does = "register" -> Append(callbacks, Callback("ok", i))
      [] callbacks[i].does = "reregister" -> Append(callbacks, Callback("reregister", i))
      [] OTHER -> callbacks

FinishedInit ==
    /\ RequestArrives([app |-> Settings(FALSE, {}, FALSE, FALSE, <<Mounted(<<"a">>, {})>>,
                                        MaxCallbacks),
                       incoming |-> Incoming("GET", <<"a">>, NoParams, NoParams)])
    /\ self = MountedResource(<<>>)
    /\ call = NoCall
    /\ waiting = NoContext
    /\ running = 1
    /\ finished_callbacks = <<>>

\* Request.on_finished, called by the application's code while the
\* request is handled.
OnFinishedCallback ==
    /\ pc = "exc_handler"
    /\ phase = 1
    /\ request.finished_callbacks < app.on_finished
    /\ request.finished_callbacks < MaxCallbacks
    /\ \E does \in Does :
         finished_callbacks' = Append(finished_callbacks, Callback(does, 0))
    /\ request' = [request EXCEPT !.finished_callbacks = @ + 1]
    /\ UNCHANGED <<app, incoming, did, self, call, waiting, running, returned, rendering,
                   phase, pc, exc, ret, original_response, err, match, trace, events,
                   called, outcomes, exceptions, cb_response, chain_result,
                   finished_result>>

\* _call_finished_callbacks, lines 277-286: one turn of the loop, the
\* callback doing what it does.
CallRegisteredCallback ==
    /\ pc = "callbacks"
    /\ Len(called) < Len(finished_callbacks)
    /\ LET i == Len(called) + 1
           outcome == IF finished_callbacks[i].does = "raise" THEN "raise" ELSE "ok"
           callbacks == Registered(finished_callbacks, i)
       IN  /\ Len(callbacks) <= MaxRegistered
           /\ called' = Append(called, i)
           /\ outcomes' = Append(outcomes, outcome)
           /\ exceptions' = CollectException(exceptions, i, outcome)
           /\ finished_callbacks' = callbacks
           /\ request' = [request EXCEPT !.finished_callbacks = Len(callbacks)]
    /\ UNCHANGED <<app, incoming, did, self, call, waiting, running, returned, rendering,
                   phase, pc, exc, ret, original_response, err, match, trace, events,
                   cb_response, chain_result, finished_result>>

FinishedNext ==
    \/ OnFinishedCallback
    \/ ExcHandler
    \/ ExcHandlerReturn
    \/ ExcHandlerExcept
    \/ GetExcResponseCall
    \/ StaticFiles
    \/ Tweaker
    \/ Notifier
    \/ NotifierReturn
    \/ ResourceFinder
    \/ Main
    \/ CallRequestFinishedHandler
    \/ RequestFinishedHandler
    \/ CallRegisteredCallback
    \/ CallbacksDone

\* Every handler that is called runs on: a step that can be taken is
\* taken.
FinishedSpec == FinishedInit /\ [][FinishedNext]_vars /\ WF_vars(FinishedNext)

(***************************************************************************)
(* Properties                                                              *)
(***************************************************************************)
Ran(handler) == \E i \in DOMAIN trace : trace[i] = handler

\* The mounted resources whose pattern matches the path the resolver saw,
\* and those among them that accept the method it saw.
AtPath ==
    {i \in 1..Len(app.mounted_resources) :
        PathRegexSearch(app.mounted_resources[i].path, match.path)}

Accepting ==
    {i \in AtPath :
        \/ app.mounted_resources[i].methods = {}
        \/ match.method \in app.mounted_resources[i].methods}

\* The $method override the request arrived with ("" for none).
Override == Special(incoming, "$method")

\* The result of the exc_handler call that has just ended.
Result == IF phase = 1 THEN chain_result ELSE finished_result

\* An exc_handler call has ended after catching an exception.
Caught == pc \in {"handled", "done"} /\ original_response # NoResponse

\* The finished callbacks were started and the loop over them is over.
PassOver == cb_response # NoResponse /\ pc # "callbacks"

\* C1: once resource_finder has run, its outcome is a 404 if no mounted
\* resource's pattern matches the path; a 405 if some pattern matches the
\* path but no path-matching resource accepts the method; and it raises a
\* 404 or a 405 in these two cases only.
C1_NotFoundAndMethodNotAllowed ==
    match.status # "unset" =>
        /\ AtPath = {} => match.status = "404"
        /\ (AtPath # {} /\ Accepting = {}) => match.status = "405"
        /\ match.status = "404" => AtPath = {}
        /\ match.status = "405" => (AtPath # {} /\ Accepting = {})
        /\ (phase = 1 /\ exc.by = "resource_finder") =>
            /\ exc.status = 404 <=> AtPath = {}
            /\ exc.status = 405 <=> (AtPath # {} /\ Accepting = {})

C1_Witness ==
    /\ match.status = "405"
    /\ pc = "exc_except"
    /\ exc = Exc("WSGIHTTPException", 405, "resource_finder")
    /\ Len(app.mounted_resources) = 2

\* C2: the resolved resource is the earliest mounted one whose method set
\* is empty or contains the method and whose pattern matches the path,
\* whatever is mounted after it; and one is resolved whenever one exists.
C2_FirstMatchInMountOrder ==
    match.status # "unset" =>
        /\ match.index # 0 =>
            /\ match.index \in Accepting
            /\ \A i \in Accepting : match.index <= i
        /\ Accepting # {} => match.index # 0

\* A later-mounted literal pattern matches too, and the placeholder
\* pattern mounted first wins.
C2_Witness ==
    /\ match.status = "ok"
    /\ match.index = 1
    /\ 2 \in Accepting
    /\ app.mounted_resources[1].path = <<"{id}">>
    /\ app.mounted_resources[2].path = <<"a">>

\* C3: with debug off, a POST request with $method=M is resolved and
\* dispatched as M when M is in tunnel_over_post; otherwise the handler
\* chain ends with a 400 response and neither resource_finder nor a
\* resource method runs.
C3_TunnelOverPost ==
    (~app.debug /\ incoming.method = "POST" /\ Override # "" /\ Ran("tweaker")) =>
        IF Override \in app.tunnel_over_post
        THEN /\ ~(phase = 1 /\ exc.by = "tweaker")
             /\ pc \in {"notifier", "resource_finder", "main"} => request.method = Override
             /\ match.status # "unset" => match.method = Override
             /\ pc = "main" => request.resource_method = Override
        ELSE /\ ~Ran("resource_finder")
             /\ ~Ran("main")
             /\ match = NoMatch
             /\ phase = 1 =>
                 /\ request.resource = "None"
                 /\ exc = Exc("WSGIHTTPException", 400, "tweaker")
                 /\ ~err.get_called
                 /\ pc \in {"exc_except", "get_exc_response", "handled"}
             /\ chain_result.kind # "none" =>
                 /\ chain_result.kind = "return"
                 /\ chain_result.response.status = 400

C3_Witness ==
    /\ ~app.debug
    /\ incoming.method = "POST"
    /\ Override = "DELETE"
    /\ Override \in app.tunnel_over_post
    /\ pc = "main"
    /\ match.method = "DELETE"
    /\ request.resource_method = "DELETE"

\* C4 as claimed: an override is accepted whenever debug is on or the
\* overriding method is in tunnel_over_post, whatever the request's method,
\* and rejected with a 400 only when neither holds.
C4_AcceptedWhateverTheMethod ==
    (Override # "" /\ phase = 1) =>
        /\ (pc = "exc_except" /\ exc.by = "tweaker") =>
            ~(app.debug \/ Override \in app.tunnel_over_post)
        /\ pc = "notifier" => request.method = Override

\* C4: an override is accepted (request.method becomes the overriding
\* method and the request goes on to the next handler) exactly when debug
\* is on, or the request's method is POST and the overriding method is in
\* tunnel_over_post; otherwise it is rejected with a 400.
C4_AcceptedOverPostOrInDebug ==
    (Override # "" /\ phase = 1) =>
        /\ (pc = "exc_except" /\ exc.by = "tweaker") =>
            /\ exc.status = 400
            /\ ~app.debug
            /\ ~(incoming.method = "POST" /\ Override \in app.tunnel_over_post)
        /\ pc = "notifier" =>
            /\ request.method = Override
            /\ \/ app.debug
               \/ incoming.method = "POST" /\ Override \in app.tunnel_over_post

\* An override in the allow-list is rejected on a request that is no POST.
C4_Witness ==
    /\ pc = "exc_except"
    /\ exc = Exc("WSGIHTTPException", 400, "tweaker")
    /\ Override \in app.tunnel_over_post
    /\ incoming.method = "GET"
    /\ ~app.debug

\* C5: exc_handler always returns a response, whatever the handlers below
\* it and the error resource raise; the response it makes of an HTTP-level
\* exception is the exception itself, of any other exception a generic 500
\* with debug off and a debug 500 with debug on.
C5_ExcHandlerAlwaysReturns ==
    /\ pc = "handled" =>
        chain_result.kind = "return" /\ chain_result.response # NoResponse
    /\ pc = "done" =>
        finished_result.kind = "return" /\ finished_result.response # NoResponse
    /\ original_response # NoResponse =>
        /\ exc # NoExc
        /\ exc.type = "WSGIHTTPException" =>
            original_response =
                [kind |-> "WSGIHTTPException", status |-> exc.status, by |-> exc.by,
                 rendered |-> original_response.rendered, cors |-> FALSE]
        /\ (exc.type # "WSGIHTTPException" /\ ~app.debug) =>
            /\ original_response.kind = "HTTPInternalServerError"
            /\ original_response.status = 500
        /\ (exc.type # "WSGIHTTPException" /\ app.debug) =>
            /\ original_response.kind = "DebugHTTPInternalServerError"
            /\ original_response.status = 500
    /\ (pc \in {"handled", "done"} /\ exc # NoExc) => original_response # NoResponse

\* A resource method raised, and so did the error resource.
C5_Witness ==
    /\ pc = "handled"
    /\ exc = Exc("Exception", 0, "resource")
    /\ err.outcome = "raised"
    /\ chain_result.kind = "return"
    /\ chain_result.response.status = 500

\* C6 as claimed: get_exc_response uses the error resource exactly when
\* the response's status code is 400 or greater and an error resource is
\* configured (debug 500 responses aside).
C6_ErrorResourceFrom400 ==
    (Caught /\ original_response.kind # "DebugHTTPInternalServerError") =>
        (err.factory_called <=> (original_response.status >= 400 /\ app.error_resource))

C8_AllCallbacksCalledInOrder ==
    /\ Len(called) <= request.finished_callbacks
    /\ \A i \in DOMAIN called : called[i] = i
    /\ PassOver =>
        LET raisers == {i \in DOMAIN outcomes : outcomes[i] # "ok"}
        IN  /\ Len(called) = request.finished_callbacks
            /\ Len(outcomes) = Len(called)
            /\ Len(exceptions) = Cardinality(raisers)
            /\ \A j \in DOMAIN exceptions : exceptions[j].callback \in raisers
            /\ \A j, k \in DOMAIN exceptions :
                j < k => exceptions[j].callback < exceptions[k].callback
            /\ exceptions # <<>> => exc = Exc("RequestFinishedException", 0, "request")
            /\ exceptions = <<>> => exc = NoExc

\* Both of two callbacks raised.
C8_Witness ==
    /\ PassOver
    /\ outcomes = <<"raise", "http">>
    /\ called = <<1, 2>>
    /\ Len(exceptions) = 2
    /\ exc.type = "RequestFinishedException"

C10_StaticFiles ==
    Ran("static_files") =>
        IF FindStaticDirectory(app.static_directories, incoming.path_info) # "None"
        THEN /\ request.is_static
             /\ ~Ran("tweaker") /\ ~Ran("notifier")
             /\ ~Ran("resource_finder") /\ ~Ran("main")
             /\ events = <<>>
             /\ match = NoMatch
             /\ chain_result.kind # "none" =>
                 /\ chain_result.kind = "return"
                 /\ chain_result.response.by = "static_directory"
             /\ phase = 1 =>
                 /\ request.resource = "None"
                 /\ exc = NoExc
                 /\ ~err.get_called
             /\ pc # "callbacks"
             /\ called = <<>>
             /\ cb_response = NoResponse
        ELSE /\ ~request.is_static
             /\ pc = "tweaker" \/ Ran("tweaker")

C10_Witness ==
    /\ pc = "done"
    /\ request.is_static
    /\ request.finished_callbacks = MaxCallbacks
    /\ chain_result.response.by = "static_directory"
    /\ called = <<>>


\* C11: a value that is not a Response, returned by a handler to its
\* HandlerWrapper, is never passed up the chain: the wrapper raises a
\* ValueError in its place.
C11_NonResponseRaises ==
    (returned # NoResponse /\ ~IsResponse(returned)) =>
        /\ ret # returned
        /\ chain_result.response # returned
        /\ (phase = 1 /\ pc = "exc_except") => exc = Exc("ValueError", 0, "HandlerWrapper")

\* C12: when the resource method returns a Response, main returns that
\* very object, as the resource created it, builds no representation and
\* leaves the request, request.response included, as it was.
C12_ResponsePassedThrough ==
    [][(pc = "main" /\ rendering'.data = "response") =>
        /\ pc' \in {"cors_return", "notifier_return"}
        /\ ret' = Resp("Response", 200, "resource")
        /\ rendering'.differentiator = "None"
        /\ request' = request]_vars

C12_Witness ==
    /\ pc \in {"cors_return", "notifier_return"}
    /\ rendering = Rendering("response", "", "None")
    /\ ret = Resp("Response", 200, "resource")
    /\ request.response = NoResponse

\* C13: for a resource method that returns no Response, main returns
\* request.response as it is, building no representation, exactly when
\* the method returned None and the status of request.response is in
\* 300..399; in every other case it builds a representation, of the type
\* set in the resource's configuration when there is one and of the
\* negotiated content type otherwise.
C13_RedirectOrRepresentation ==
    [][(pc = "main" /\ rendering'.data \in {"data", "None"}) =>
        LET response == request'.response
        IN  IF rendering'.data = "None" /\ response.status \in 300..399
            THEN /\ rendering'.differentiator = "None"
                 /\ pc' \in {"cors_return", "notifier_return"}
                 /\ ret' = response
                 /\ ~response.rendered
            ELSE rendering'.differentiator =
                    IF rendering'.type # ""
                    THEN rendering'.type
                    ELSE ResponseContentType(request')]_vars

C13_Witness ==
    /\ pc \in {"cors_return", "notifier_return"}
    /\ rendering = Rendering("data", "json", "json")
    /\ request.accept = "application/json"
    /\ request.response.status = 303
    /\ ret = request.response
    /\ ret.rendered

\* C14: format_path applied to the urlvars of a Match returns a path, and
\* whatever its arguments a path that format_path returns is one the
\* pattern matches.
C14_FormatPathRoundTrip ==
    call.op = "format_path" =>
        /\ call.match.kind = "Match" => call.result.kind = "path"
        /\ call.result.kind = "path" => RegexSearch(self.path_regex, call.result.path)

\* C15: the compiled pattern matches a path exactly when the path is, in
\* full, the pattern with one or more word or hyphen characters in place
\* of each {name}, a match of the regex in place of each {name:regex} and
\* every literal as it is; and the urlvars are what stands in place of
\* the placeholders.
C15_PlaceholdersCompiled ==
    call.op = "match" =>
        LET tokens == self.path
            claimed ==
                [elements |->
                    <<Char("/")>> \o
                    [i \in 1..Len(tokens) |->
                        IF tokens[i].kind = "lit" THEN Char(tokens[i].text)
                        ELSE IF tokens[i].kind = "identifier" THEN Class(WordChars)
                        ELSE Class(DigitChars)],
                 groups |->
                    {[name |-> tokens[i].text, from |-> i + 1, to |-> i + 1, token |-> i] :
                        i \in {j \in 1..Len(tokens) : tokens[j].kind # "lit"}}]
        IN  /\ call.match.kind = "Match" <=> RegexSearch(claimed, call.path)
            /\ (call.match.kind = "Match" /\ IsValidRegex(claimed)) =>
                    call.match.urlvars = RegexGroupDict(claimed, call.path)

\* C16: handling a request never modifies the application (settings,
\* mounted resources, handler chain) nor the state of the other request,
\* and however the steps of two requests are interleaved each request
\* ends with the response, and the request state, it ends with when it is
\* handled alone.
C16_RequestsDoNotInterfere ==
    [][/\ app' = app
       /\ running' = running => waiting' = waiting
       /\ pc' = "handled" =>
            LET alone == HandleAlone(app', incoming', did')
            IN  chain_result' = alone.result /\ request' = alone.request
       /\ waiting'.pc = "handled" =>
            LET alone == HandleAlone(app', waiting'.incoming, waiting'.did)
            IN  /\ waiting'.chain_result = alone.result
                /\ waiting'.request = alone.request]_vars

C16_Witness ==
    /\ running = 2
    /\ pc = "handled"
    /\ request.resource = "error_resource"
    /\ waiting.pc = "main"
    /\ waiting.request.method = "DELETE"

\* C17 as claimed: the response handed to the finished callbacks is the
\* response that processing the request produced; when processing ended
\* in an error response (status 400 or above) the callbacks are handed
\* that error response.
C17_CallbacksSeeErrorResponse ==
    (pc = "callbacks" /\ chain_result.kind = "return"
                      /\ chain_result.response.status >= 400) =>
        /\ cb_response = chain_result.response
        /\ cb_response.status >= 400


\* C18: a WSGIHTTPException raised by a finished callback is collected as
\* a ValueError, the callbacks after it are still called, and what
\* _call_finished_callbacks raises is a RequestFinishedException, which
\* exc_handler turns into a 500 response of its own: the response
\* delivered is that 500 response or what the error resource makes of it,
\* never the callback's exception.
C18_HTTPExceptionInCallbackIsAnError ==
    /\ \A j \in DOMAIN exceptions :
          /\ exceptions[j].type # "WSGIHTTPException"
          /\ outcomes[exceptions[j].callback] = "http" =>
                exceptions[j].type = "ValueError"
    /\ \A i \in DOMAIN outcomes :
          outcomes[i] = "http" =>
              \E j \in DOMAIN exceptions :
                  exceptions[j] = [callback |-> i, type |-> "ValueError"]
    /\ (PassOver /\ \E i \in DOMAIN outcomes : outcomes[i] = "http") =>
          /\ Len(called) = request.finished_callbacks
          /\ exc = Exc("RequestFinishedException", 0, "request")
          /\ pc \in {"handled", "done"} =>
                /\ original_response.status = 500
                /\ original_response.kind \in
                       {"HTTPInternalServerError", "DebugHTTPInternalServerError"}
                /\ original_response.by = "exc_handler/finished"
          /\ pc = "done" =>
                /\ finished_result.kind = "return"
                /\ \/ [finished_result.response EXCEPT !.cors = FALSE]
                          = original_response
                   \/ err.factory_called

\* The first of two callbacks raised a WSGIHTTPException, the second was
\* called and ended normally.
C18_Witness ==
    /\ pc = "done"
    /\ outcomes = <<"http", "ok">>
    /\ called = <<1, 2>>
    /\ exceptions = <<[callback |-> 1, type |-> "ValueError"]>>
    /\ finished_result.response.status = 500


\* C19: the events of a request come in this order: the NewRequest
\* notification first; the ResourceFound notification next, once, with the
\* resource resolved, the factory called and the arguments bound; then the
\* invocation of the resource method; then the NewResponse notification,
\* made when the stages after notifier have returned (and not None).  A
\* request that ends early has a prefix of this sequence, and when an
\* application handler answers without calling the next stage the
\* resource method is left out.
C19_EventOrder ==
    [][events' # events =>
         LET event == events'[Len(events')]
         IN  /\ events' = Append(events, event)
             /\ event = "NewRequest" => events = <<>> /\ match.status = "unset"
             /\ event = "ResourceFound" =>
                   /\ events = <<"NewRequest">>
                   /\ match'.status = "ok"
                   /\ match'.factory
                   /\ did'.bind = "ok"
                   /\ request'.resource = "resource"
                   /\ request'.resource_args = "args"
             /\ event = "resource_method" =>
                   /\ events = <<"NewRequest", "ResourceFound">>
                   /\ pc = "main"
             /\ event = "NewResponse" =>
                   /\ pc = "notifier_return"
                   /\ ret # NoResponse
                   /\ ret # NoneValue(ret.by)
                   /\ \/ events = <<"NewRequest", "ResourceFound", "resource_method">>
                      \/ /\ events = <<"NewRequest", "ResourceFound">>
                         /\ did.h \notin {"", "next"}
                         /\ ~Ran("main")]_vars

\* All four events of a request have occurred.
C19_Witness ==
    /\ events = <<"NewRequest", "ResourceFound", "resource_method", "NewResponse">>
    /\ Ran("notifier") /\ Ran("resource_finder") /\ Ran("main")
    /\ pc = "done"


\* C20: when resource_finder ends a request early, with a 404, a 405, a
\* 303 for an add_slash resource requested without a trailing slash or a
\* 400 for a BindError, no later stage of the chain runs, the resource
\* method is not invoked, no ResourceFound notification is made and the
\* resolved resource, its method and its arguments are not set on the
\* request; the 303 is raised before the resource factory is called and
\* before arguments are bound, and redirects to the path with a slash
\* appended.
C20_EndsEarly ==
    /\ match.status \in {"404", "405", "303", "400"} =>
          /\ ~Ran("handler") /\ ~Ran("main")
          /\ events = <<"NewRequest">>
          /\ did.h = "" /\ did.b = NoDid.b
          /\ request.resource # "resource"
          /\ request.resource_args = "None"
          /\ pc = "exc_except" /\ phase = 1 =>
                /\ exc.type = "WSGIHTTPException"
                /\ exc.by = "resource_finder"
                /\ request.resource = "None"
                /\ request.resource_method = "None"
          /\ Caught /\ phase = 1 =>
                original_response.by = "resource_finder"
    /\ match.status \in {"404", "405"} => ~match.factory /\ did.bind = ""
    /\ match.status = "303" =>
          /\ ~match.factory
          /\ did.bind = ""
          /\ app.mounted_resources[match.index].add_slash
          /\ ~EndsWithSlash(incoming.path_info)
          /\ request.path_info = Append(incoming.path_info, "")
          /\ Caught /\ phase = 1 => original_response.status = 303
    /\ match.status = "400" =>
          /\ match.factory
          /\ did.bind = "BindError"
          /\ Caught /\ phase = 1 => original_response.status = 400
    /\ match.status \in {"400", "ok"} =>
          ~(/\ app.mounted_resources[match.index].add_slash
            /\ ~EndsWithSlash(incoming.path_info))

\* /a, mounted with add_slash, was requested without the trailing slash
\* and the request has been answered with the redirect.
C20_Witness ==
    /\ pc = "done"
    /\ match.status = "303"
    /\ incoming.path_info = <<"a">>
    /\ request.path_info = <<"a", "">>
    /\ chain_result.kind = "return"
    /\ chain_result.response.status = 303


\* C21: when tweaker passes the request on, a non-empty $accept parameter
\* has become the request's Accept value and the path is as it was;
\* without one, the Accept value is the content type of the path's
\* extension and the extension is stripped from the path exactly when
\* set_accept_from_ext is on, the path has an extension and a
\* representation type is registered under it; in every other case Accept
\* and path are as they were.
C21_AcceptFromParameterOrExtension ==
    [][(pc = "tweaker" /\ pc' = "notifier") =>
         LET accept == Special(request, "$accept")
             split == SplitExt(request.path_info)
             root == split[1]
             ext == split[2]
             registered == ext # "" /\ Representation(LStrip(ext)) \in ContentTypes
         IN  /\ accept # "" =>
                   /\ request'.accept = accept
                   /\ request'.path_info = request.path_info
             /\ (accept = "" /\ app.set_accept_from_ext /\ registered) =>
                   /\ request'.accept = Representation(LStrip(ext))
                   /\ request'.path_info = root
                   /\ request'.path_info # request.path_info
                   /\ Len(request'.path_info) = Len(request.path_info)
             /\ (accept = "" /\ ~(app.set_accept_from_ext /\ registered)) =>
                   /\ request'.accept = request.accept
                   /\ request'.path_info = request.path_info
             /\ request'.path_info # request.path_info =>
                   /\ accept = ""
                   /\ app.set_accept_from_ext
                   /\ <<incoming.path_info, request'.path_info>> \in
                         { <<(<<"a.json">>), (<<"a">>)>>,
                           <<(<<"a..json">>), (<<"a.">>)>>,
                           <<(<<"b", "a.json">>), (<<"b", "a">>)>> }]_vars

\* /a.json was requested with set_accept_from_ext on and no $accept
\* parameter: the resource mounted at /a was found and the request's
\* Accept value is application/json.
C21_Witness ==
    /\ incoming.path_info = <<"a.json">>
    /\ Special(MakeRequest(incoming), "$accept") = ""
    /\ app.set_accept_from_ext
    /\ request.path_info = <<"a">>
    /\ request.accept = "application/json"
    /\ match.status = "ok"
    /\ pc = "done"


\* C22: once tweaker has run, neither request.GET nor request.POST holds
\* a $method or an $accept parameter, whether they came in the query
\* string or in the form, whether tweaker passed the request on or
\* rejected it, and whichever stage runs afterwards; the other parameters
\* are the ones that arrived.
C22_SpecialsRemoved ==
    Ran("tweaker") =>
        /\ {"$method", "$accept"} \cap (Keys(request.GET) \cup Keys(request.POST)) = {}
        /\ request.GET = {p \in incoming.GET : p[1] \notin {"$method", "$accept"}}
        /\ request.POST = {p \in incoming.POST : p[1] \notin {"$method", "$accept"}}

\* Both parameters arrived in the form of a POST request, the override was
\* applied and the resource method has run.
C22_Witness ==
    /\ {"$method", "$accept"} \subseteq Keys(incoming.POST)
    /\ incoming.method = "POST"
    /\ request.method = "DELETE"
    /\ request.accept = "application/json"
    /\ request.POST = {<<"q", "b">>}
    /\ Ran("main")
    /\ pc = "done"


\* C23: notifier notifies NewResponse only when the stages after it have
\* returned normally.  When one of them raises, an HTTP abort or any other
\* exception, control leaves notifier for exc_handler with no NewResponse
\* among the events, and none is added afterwards: the response that
\* exc_handler makes of the exception is not announced.
C23_NoNewResponseOnException ==
    [][LET Announced(es) == \E i \in DOMAIN es : es[i] = "NewResponse"
       IN  /\ (Announced(events') /\ ~Announced(events)) =>
                 /\ pc = "notifier_return"
                 /\ phase = 1
                 /\ exc = NoExc
                 /\ original_response = NoResponse
                 /\ ret # NoResponse
                 /\ ret' = ret
           /\ (phase = 1 /\ pc' = "exc_except") => ~Announced(events')
           /\ (phase = 1 /\ original_response' # NoResponse) => ~Announced(events')
           /\ (phase' = 2 /\ Announced(events')) =>
                 /\ chain_result'.kind = "return"
                 /\ chain_result'.response.by \notin {"exc_handler", "error_resource"}]_vars

\* The resource method raised an exception that is no HTTP exception: the
\* request was answered with a 500 response and NewResponse was not
\* notified.
C23_Witness ==
    /\ pc = "done"
    /\ events = <<"NewRequest", "ResourceFound", "resource_method">>
    /\ chain_result.kind = "return"
    /\ chain_result.response.status = 500
    /\ chain_result.response.by = "exc_handler"


\* What get_exc_response does with the error resource, apart from the
\* status of the response it returns: a debug 500 response is not sent
\* through the error resource; when the error resource is used, nothing
\* but main runs, wrapped by the CORS handler when CORS is enabled, on a
\* request whose method and resource_method are GET, whose resource_args
\* are None and whose response is the original error response.
ErrorResourcePath ==
    /\ events' = events /\ match' = match /\ returned' = returned
    /\ trace' = Append(trace, "get_exc_response")
    /\ original_response.kind = "DebugHTTPInternalServerError" =>
          /\ ~err'.factory_called
          /\ request' = request
          /\ Result'.response = IF app.cors_enabled
                                THEN CorsHandler(original_response)
                                ELSE original_response
    /\ err'.get_called =>
          /\ original_response.status > 400
          /\ request'.method = "GET"
          /\ request'.resource = "error_resource"
          /\ request'.resource_method = "GET"
          /\ request'.resource_args = "None"
          /\ request'.response.kind = original_response.kind
          /\ request'.response.by = original_response.by
          /\ did'.e.get.status = 0 => request'.response.status = original_response.status
          /\ err'.outcome = "returned" => Result'.response.cors = app.cors_enabled

\* C24 as claimed: on the error-resource path only main runs, wrapped by
\* the CORS handler when CORS is enabled, with the request's method and
\* resource_method GET, its resource_args None and its response the
\* original error response; a debug 500 response is not sent through the
\* error resource; and whenever the error resource returns data rather
\* than a Response, the response returned has the status of the original
\* error response.
C24_SameStatusForData ==
    [][pc = "get_exc_response" =>
         /\ ErrorResourcePath
         /\ (err'.get_called /\ did'.e.get.outcome = "data") =>
               /\ Result'.kind = "return"
               /\ Result'.response.status = original_response.status]_vars

\* C24: as above, but the response returned for data has the status of
\* the original error response when the error resource's method leaves
\* the status of request.response alone and the content of the
\* representation is not itself a Response: it is then the original
\* error response, rendered, or the original as it was when building the
\* representation raised.  A status the method sets is the status
\* returned, and a Response that is the representation's content is
\* returned in place of the original.
C24_ErrorResourcePath ==
    [][pc = "get_exc_response" =>
         /\ ErrorResourcePath
         /\ (err'.get_called /\ did'.e.get.outcome = "data") =>
               LET get == did'.e.get
                   response == [Result'.response EXCEPT !.cors = FALSE]
               IN  /\ Result'.kind = "return"
                   /\ (get.status = 0 /\ get.repr = "text") =>
                         response = [original_response EXCEPT !.rendered = TRUE]
                   /\ (get.status = 0 /\ get.repr = "error") =>
                         Result'.response = original_response
                   /\ (get.status # 0 /\ get.repr = "text") =>
                         response = [original_response EXCEPT !.rendered = TRUE,
                                                              !.status = get.status]
                   /\ get.repr = "response" =>
                         /\ response.by = "representation"
                         /\ response.kind = "Response"]_vars

\* A 404 of resource_finder went through the error resource with CORS
\* enabled; its GET method returned data and the response returned is the
\* 404, rendered and with the CORS headers.
C24_Witness ==
    /\ pc = "handled"
    /\ err.get_called
    /\ did.e.get = Behaviour("data", 0, "text", "")
    /\ app.cors_enabled
    /\ original_response.status = 404
    /\ incoming.method = "POST"
    /\ request.method = "GET"
    /\ chain_result.response.status = 404
    /\ chain_result.response.rendered
    /\ chain_result.response.cors


\* The callbacks of the list that have not been called.
Pending == {j \in DOMAIN finished_callbacks : j > Len(called)}

\* A callback that registers itself again on every call is yet to be
\* called.
PendingReregisters == \E j \in Pending : finished_callbacks[j].does = "reregister"

\* C25: a callback registered during the pass is appended to the list the
\* pass iterates over and is called in the same pass, after every
\* callback registered before it; when the pass is over, every callback
\* of the list has been called, in list order.  While a callback that
\* registers itself again on every call is yet to be called the pass is
\* not over, and never will be; a pass with no such callback left comes
\* to its end.
C25_CallbacksRegisteredDuringThePass ==
    /\ [](/\ \A j \in DOMAIN finished_callbacks : finished_callbacks[j].by < j
          /\ \A i \in DOMAIN called :
                /\ called[i] = i
                /\ finished_callbacks[i].does = "register" =>
                      \E j \in DOMAIN finished_callbacks :
                          j > i /\ finished_callbacks[j] = Callback("ok", i)
                /\ finished_callbacks[i].does = "reregister" =>
                      \E j \in DOMAIN finished_callbacks :
                          j > i /\ finished_callbacks[j] = Callback("reregister", i)
                /\ finished_callbacks[i].by # 0 => finished_callbacks[i].by \in DOMAIN called
          /\ PassOver => Len(called) = Len(finished_callbacks) /\ Pending = {})
    /\ [](PendingReregisters => [](~PassOver /\ PendingReregisters))
    /\ ((pc = "callbacks" /\ ~PendingReregisters) ~> PassOver)

\* The first callback registered another during the pass; both were
\* called, in that order, and the request is answered.
C25_Witness ==
    /\ pc = "done"
    /\ finished_callbacks = <<Callback("register", 0), Callback("ok", 1)>>
    /\ called = <<1, 2>>
    /\ outcomes = <<"ok", "ok">>
    /\ finished_result.kind = "return"

====
